---- MODULE Spec2Model ----
(***************************************************************************)
(* Key lifecycle, envelope encryption pipeline, retention and the          *)
(* brute-force harness of Cronjob_mobula, as state machines.               *)
(*                                                                         *)
(* Text is a sequence of one-character strings, bytes are 0..255, a file   *)
(* is a record with an `exists` flag and its content.                      *)
(***************************************************************************)
EXTENDS Integers, Sequences, FiniteSets, TLC

(***************************************************************************)
(* Bounds of the model and program constants                               *)
(***************************************************************************)
\* number of distinct values crypto/rand may return for a master key
MaxKeys == 2

\* part_004:29 / crypto.go:31 (AES-256 key length in bytes)
keyLengthBytes == 32

\* part_004:30-31 and the literals of validateShamirConfig (part_004:165-166)
defaultTotalShares == 3
defaultThreshold == 3

\* hashicorp/vault/shamir limit on parts and threshold
ShamirMaxParts == 255

(***************************************************************************)
(* Text helpers: strings.TrimSpace, strconv.Atoi, encoding/hex              *)
(***************************************************************************)
Range(s) == {s[i] : i \in 1..Len(s)}

Rep(c, n) == [i \in 1..n |-> c]

Space == {" ", "\n", "\t", "\r"}

Digits == <<"0", "1", "2", "3", "4", "5", "6", "7", "8", "9">>

HexLower == <<"0", "1", "2", "3", "4", "5", "6", "7", "8", "9", "a", "b", "c", "d", "e", "f">>

HexUpper == <<"0", "1", "2", "3", "4", "5", "6", "7", "8", "9", "A", "B", "C", "D", "E", "F">>

IsDigit(c) == c \in Range(Digits)

DigitVal(c) == (CHOOSE i \in 1..10 : Digits[i] = c) - 1

HexLowerChars == Range(HexLower)

HexChars == HexLowerChars \cup Range(HexUpper)

IsHexChar(c) == c \in HexChars

HexVal(c) ==
    IF c \in HexLowerChars THEN (CHOOSE i \in 1..16 : HexLower[i] = c) - 1
    ELSE (CHOOSE i \in 1..16 : HexUpper[i] = c) - 1

RECURSIVE TrimLeft(_)
TrimLeft(s) == IF s # <<>> /\ Head(s) \in Space THEN TrimLeft(Tail(s)) ELSE s

RECURSIVE TrimRight(_)
TrimRight(s) ==
    IF s # <<>> /\ s[Len(s)] \in Space THEN TrimRight(SubSeq(s, 1, Len(s) - 1)) ELSE s

\* strings.TrimSpace
TrimSpace(s) == TrimRight(TrimLeft(s))

RECURSIVE DigitsValue(_)
DigitsValue(s) ==
    IF s = <<>> THEN 0 ELSE 10 * DigitsValue(SubSeq(s, 1, Len(s) - 1)) + DigitVal(s[Len(s)])

\* strconv.Atoi: an optional sign, then one or more decimal digits
Atoi(s) ==
    LET signed == s # <<>> /\ Head(s) \in {"+", "-"}
        body == IF signed THEN Tail(s) ELSE s
        valid == body # <<>> /\ \A i \in 1..Len(body) : IsDigit(body[i])
    IN  IF ~valid THEN [ok |-> FALSE, val |-> 0]
        ELSE [ok |-> TRUE,
              val |-> IF signed /\ Head(s) = "-" THEN 0 - DigitsValue(body)
                      ELSE DigitsValue(body)]

\* hex.EncodeToString
HexEncode(bytes) ==
    [i \in 1..(2 * Len(bytes)) |->
        LET b == bytes[(i + 1) \div 2]
        IN  IF i % 2 = 1 THEN HexLower[(b \div 16) + 1] ELSE HexLower[(b % 16) + 1]]

\* hex.DecodeString: an odd length or a non-hex character is an error
HexDecode(s) ==
    IF Len(s) % 2 # 0 \/ \E i \in 1..Len(s) : ~IsHexChar(s[i])
    THEN [ok |-> FALSE, bytes |-> <<>>]
    ELSE [ok |-> TRUE,
          bytes |-> [i \in 1..(Len(s) \div 2) |->
                        16 * HexVal(s[2 * i - 1]) + HexVal(s[2 * i])]]

\* fmt.Scanln(&response): the first space-separated word of the line, "" on an
\* empty line; the error for further words is ignored by every caller
Scanln(line) ==
    LET t == TrimLeft(line)
        stop == IF \E i \in 1..Len(t) : t[i] \in Space
                THEN (CHOOSE i \in 1..Len(t) :
                        /\ t[i] \in Space
                        /\ \A j \in 1..(i - 1) : t[j] \notin Space) - 1
                ELSE Len(t)
    IN  SubSeq(t, 1, stop)

(***************************************************************************)
(* /app/.env: the entries readEnvFile keeps, in file order                 *)
(***************************************************************************)
NoEnv == [exists |-> FALSE, entries |-> <<>>]

EnvOf(entries) == [exists |-> TRUE, entries |-> entries]

\* readEnvFile: a map, so the last entry of a key wins; a missing file is empty
EnvHas(e, key) == e.exists /\ \E i \in 1..Len(e.entries) : e.entries[i][1] = key

EnvGet(e, key) ==
    LET last == CHOOSE i \in 1..Len(e.entries) :
                    /\ e.entries[i][1] = key
                    /\ \A j \in (i + 1)..Len(e.entries) : e.entries[j][1] # key
    IN  e.entries[last][2]

\* getConfigValue: the default unless the key is set to a non-empty value
getConfigValue(e, key, defaultValue) ==
    IF EnvHas(e, key) /\ EnvGet(e, key) # <<>> THEN EnvGet(e, key) ELSE defaultValue

\* getConfigInt: the default unless the value parses and is > 0
getConfigInt(e, key, defaultValue) ==
    IF /\ EnvHas(e, key)
       /\ EnvGet(e, key) # <<>>
       /\ Atoi(EnvGet(e, key)).ok
       /\ Atoi(EnvGet(e, key)).val > 0
    THEN Atoi(EnvGet(e, key)).val
    ELSE defaultValue

validateShamirConfigBad(e) ==
    LET totalShares == getConfigInt(e, "SHAMIR_TOTAL_SHARES", defaultTotalShares)
        threshold == getConfigInt(e, "SHAMIR_THRESHOLD", defaultThreshold)
    IN  IF threshold < 2 \/ totalShares < 2
        THEN [ok |-> FALSE, totalShares |-> 0, threshold |-> 0]
        ELSE [ok |-> TRUE, totalShares |-> totalShares, threshold |-> threshold]

\* validateShamirConfig: the effective pair, or a configuration error
validateShamirConfig(e) ==
    LET totalShares == getConfigInt(e, "SHAMIR_TOTAL_SHARES", defaultTotalShares)
        threshold == getConfigInt(e, "SHAMIR_THRESHOLD", defaultThreshold)
    IN  IF threshold > totalShares \/ threshold < 2 \/ totalShares < 2
        THEN [ok |-> FALSE, totalShares |-> 0, threshold |-> 0]
        ELSE [ok |-> TRUE, totalShares |-> totalShares, threshold |-> threshold]

(***************************************************************************)
(* GF(2^8) arithmetic and the threshold scheme of hashicorp/vault/shamir   *)
(***************************************************************************)
RECURSIVE Xor(_, _)
Xor(a, b) ==
    IF a = 0 THEN b
    ELSE IF b = 0 THEN a
    ELSE 2 * Xor(a \div 2, b \div 2) + ((a + b) % 2)

\* multiplication by x modulo x^8 + x^4 + x^3 + x + 1
XTime(a) == IF 2 * a >= 256 THEN Xor(2 * a - 256, 27) ELSE 2 * a

RECURSIVE GFMul(_, _)
GFMul(a, b) ==
    IF a = 0 \/ b = 0 THEN 0
    ELSE Xor(IF b % 2 = 1 THEN a ELSE 0, GFMul(XTime(a), b \div 2))

RECURSIVE GFPow(_, _)
GFPow(a, n) ==
    IF n = 0 THEN 1
    ELSE IF n % 2 = 1 THEN GFMul(a, GFPow(a, n - 1))
    ELSE GFPow(GFMul(a, a), n \div 2)

\* the inverse of a non-zero element is its 254th power
GFInverse == [b \in 0..255 |-> GFPow(b, 254)]

GFDiv(a, b) == GFMul(a, GFInverse[b])

\* polynomial.evaluate (Horner): coef[1] is the intercept
RECURSIVE PolyEval(_, _)
PolyEval(coef, x) ==
    IF coef = <<>> THEN 0
    ELSE Xor(Head(coef), GFMul(x, PolyEval(Tail(coef), x)))

\* shamir.Split: share i is the polynomial of each secret byte evaluated at a
\* distinct non-zero x, followed by that x.  `c` is the random coefficient
\* drawn for the non-constant terms and `off` the start of the x permutation.
SplitOk(secret, parts, threshold) ==
    /\ parts >= threshold
    /\ parts <= ShamirMaxParts
    /\ threshold <= ShamirMaxParts
    /\ threshold >= 2
    /\ Len(secret) > 0

ShareX(i, off) == ((i - 1 + off) % ShamirMaxParts) + 1

SplitBad(secret, parts, threshold, c, off) ==
    [i \in 1..parts |->
        [idx \in 1..(Len(secret) + 1) |->
            IF idx = Len(secret) + 1 THEN ShareX(i, off)
            ELSE PolyEval(<<secret[idx]>> \o Rep(c, threshold - 2), ShareX(i, off))]]

Split(secret, parts, threshold, c, off) ==
    [i \in 1..parts |->
        [idx \in 1..(Len(secret) + 1) |->
            IF idx = Len(secret) + 1 THEN ShareX(i, off)
            ELSE PolyEval(<<secret[idx]>> \o Rep(c, threshold - 1), ShareX(i, off))]]

\* shamir.Combine: structural checks, then Lagrange interpolation at 0
CombineOk(parts) ==
    /\ Len(parts) >= 2
    /\ Len(parts[1]) >= 2
    /\ \A i \in 2..Len(parts) : Len(parts[i]) = Len(parts[1])
    /\ \A i, j \in 1..Len(parts) :
            i # j => parts[i][Len(parts[1])] # parts[j][Len(parts[1])]

RECURSIVE GFProd(_)
GFProd(s) == IF s = <<>> THEN 1 ELSE GFMul(Head(s), GFProd(Tail(s)))

RECURSIVE XorAll(_)
XorAll(s) == IF s = <<>> THEN 0 ELSE Xor(Head(s), XorAll(Tail(s)))

BasisBad(xs, i) ==
    GFProd([j \in 1..Len(xs) |->
                IF j = i THEN 1 ELSE GFDiv(xs[j], xs[i])])

\* the Lagrange basis of sample i at 0: the product over j # i of x_j / (x_i + x_j)
Basis(xs, i) ==
    GFProd([j \in 1..Len(xs) |->
                IF j = i THEN 1 ELSE GFDiv(xs[j], Xor(xs[i], xs[j]))])

Combine(parts) ==
    LET n == Len(parts[1])
        xs == [i \in 1..Len(parts) |-> parts[i][n]]
        w == [i \in 1..Len(parts) |-> Basis(xs, i)]
    IN  [idx \in 1..(n - 1) |->
            XorAll([i \in 1..Len(parts) |-> GFMul(parts[i][idx], w[i])])]

(***************************************************************************)
(* State                                                                   *)
(***************************************************************************)
VARIABLES
    env,          \* /app/.env
    keyFile,      \* KEY_DIR/master.key: [exists, data]
    keyInfo,      \* KEY_DIR/key_info.json: [exists, parses, hex, total, required]
    testFile,     \* /app/test_hello.encrypted: [exists, blob]
    held,         \* the share strings the operator copied from the last display
    tool,         \* the tool that runs: "none", "keygen", "create-test", "decrypt",
                  \* "pipeline", "brute"
    pc,           \* position of the running tool, "idle" when none runs
    out,          \* what the running tool has printed so far
    start,        \* the files as they were when the running tool started
    totalShares,  \* keygen main: totalShares
    threshold,    \* keygen main: threshold
    key,          \* keygen main: key
    shares,       \* keygen main: shares
    response,     \* keygen main: response
    required,     \* decrypt runInteractiveTest: keyInfo.RequiredShares
    filePath,     \* decrypt runInteractiveTest: filePath
    entered,      \* decrypt runInteractiveTest: shares
    masterKey,    \* decrypt runInteractiveTest and snapshot main: masterKey
    now,          \* the wall clock, in minutes since 2025-01-01 00:00
    files,        \* the regular files under DISK_IMAGE_DIR
    dirs,         \* the directories under DISK_IMAGE_DIR, the root <<>> included
    calls,        \* snapshot main: the functions called so far in this run
    diskImagePath,\* snapshot main: diskImagePath
    swept,        \* checkRetentionPolicy: what each of its walks in this run met
    workers,      \* runBruteForceTest: workers
    wpc,          \* runBruteForceTest: position of each worker goroutine
    localAttempts,\* runBruteForceTest: localAttempts of each worker
    attempts,     \* runBruteForceTest: attempts
    mu,           \* runBruteForceTest: the worker holding mu, 0 when free
    done,         \* runBruteForceTest: the channel done, "open" or "closed"
    timer,        \* runBruteForceTest: the time.AfterFunc timer
    cracks,       \* what decryptFile returns on the target archive, per draw
    lab           \* the cryptographic functions called on their own: inputs and results

fsVars == <<env, keyFile, keyInfo, testFile>>

genVars == <<totalShares, threshold, key, shares, response>>

decVars == <<required, filePath, entered, masterKey>>

pipeVars == <<now, files, dirs, calls, diskImagePath, swept>>

bruteVars == <<workers, wpc, localAttempts, attempts, mu, done, timer, cracks>>

vars == <<env, keyFile, keyInfo, testFile, held, tool, pc, out, start,
          totalShares, threshold, key, shares, response,
          required, filePath, entered, masterKey,
          now, files, dirs, calls, diskImagePath, swept,
          workers, wpc, localAttempts, attempts, mu, done, timer, cracks, lab>>

NoFile == [exists |-> FALSE, data |-> <<>>]

\* no function has been called on its own
NoLab ==
    [stage |-> "start", key |-> <<>>, n |-> 0, t |-> 0, c |-> 0, shares |-> <<>>,
     picked |-> <<>>, pt |-> <<>>, via |-> "", blob |-> <<>>, tamper |-> "",
     used |-> [ok |-> FALSE, err |-> "", key |-> <<>>],
     res |-> [ok |-> FALSE, err |-> "", pt |-> <<>>]]

FileOf(data) == [exists |-> TRUE, data |-> data]

NoInfo == [exists |-> FALSE, parses |-> FALSE, hex |-> <<>>, total |-> 0, required |-> 0]

\* nonce || AEAD(ciphertext || tag), kept symbolically: the blob opens under
\* `key` and no other, and then yields `pt`
NoBlob == [nonce |-> 0, key |-> <<>>, pt |-> <<>>, intact |-> FALSE]

NoTest == [exists |-> FALSE, blob |-> NoBlob]

Ev(msg, data) == [msg |-> msg, data |-> data]

Say(msg) == Ev(msg, <<>>)

Printed(msg) == \E i \in 1..Len(out) : out[i].msg = msg

\* the 32 bytes crypto/rand returns: one of MaxKeys distinct values
KeyBytes(k) == Rep(k, keyLengthBytes)

RandomKeys == {KeyBytes(k) : k \in 1..MaxKeys}

Snapshot == [keyFile |-> keyFile, keyInfo |-> keyInfo, testFile |-> testFile,
             files |-> files, dirs |-> dirs]

NoStart == [keyFile |-> NoFile, keyInfo |-> NoInfo, testFile |-> NoTest,
            files |-> {}, dirs |-> {}]

(***************************************************************************)
(* Key generator (part_004:51-273)                                         *)
(***************************************************************************)
\* what the operator may type at the regeneration prompt
AnswerLines ==
    { <<>>, <<"y">>, <<"Y">>, <<"n">>, <<"y", "e", "s">>, <<" ", "y">>, <<"N">> }

\* the random coefficient and x offset Split draws
MaxCoef == 1

ConfirmedBad(r) == r # <<"n">> /\ r # <<"N">>

\* main: response != "y" && response != "Y" keeps the key
Confirmed(r) == r = <<"y">> \/ r = <<"Y">>

DecLocalsReset ==
    /\ required' = 0
    /\ filePath' = ""
    /\ entered' = <<>>
    /\ masterKey' = <<>>

\* the path a run has not chosen yet
NoPath == [dir |-> <<>>, stamp |-> <<>>]

\* no directory: the walk met no unreadable one
NoDir == <<0>>

PipeLocalsReset ==
    /\ calls' = <<>>
    /\ diskImagePath' = NoPath
    /\ swept' = <<>>

BruteLocalsReset ==
    /\ workers' = 0
    /\ wpc' = <<>>
    /\ localAttempts' = <<>>
    /\ attempts' = 0
    /\ mu' = 0
    /\ done' = "open"
    /\ timer' = "none"

GenLocalsReset ==
    /\ totalShares' = 0
    /\ threshold' = 0
    /\ key' = <<>>
    /\ shares' = <<>>
    /\ response' = <<>>

\* main, lines 52-62: loadConfig and validateShamirConfig
GenStart ==
    /\ pc = "idle"
    /\ tool' = "keygen"
    /\ start' = Snapshot
    /\ LET cfg == validateShamirConfig(env)
       IN  IF cfg.ok
           THEN /\ pc' = "gen_mkdir"
                /\ out' = <<Say("Encryption Key Generator"), Say("Configuration")>>
                /\ totalShares' = cfg.totalShares
                /\ threshold' = cfg.threshold
           ELSE /\ pc' = "exit1"
                /\ out' = <<Say("Encryption Key Generator"), Say("Failed to load configuration")>>
                /\ UNCHANGED <<totalShares, threshold>>
    /\ UNCHANGED <<fsVars, held, key, shares, response, decVars, pipeVars, bruteVars, lab>>

\* main, lines 64-67: os.MkdirAll(keyDir)
GenMkdir ==
    /\ pc = "gen_mkdir"
    /\ \/ pc' = "gen_stat" /\ out' = out
       \/ pc' = "exit1" /\ out' = Append(out, Say("Failed to create key directory"))
    /\ UNCHANGED <<fsVars, held, tool, start, genVars, decVars, pipeVars, bruteVars, lab>>

\* main, lines 69-71: os.Stat(keyFile)
GenStat ==
    /\ pc = "gen_stat"
    /\ IF keyFile.exists
       THEN pc' = "gen_prompt" /\ out' = Append(out, Say("Master key already exists"))
       ELSE pc' = "gen_generate" /\ out' = out
    /\ UNCHANGED <<fsVars, held, tool, start, genVars, decVars, pipeVars, bruteVars, lab>>

\* main, lines 73-80: the regeneration prompt
GenPrompt ==
    /\ pc = "gen_prompt"
    /\ \E line \in AnswerLines :
        /\ response' = Scanln(line)
        /\ IF Confirmed(Scanln(line))
           THEN pc' = "gen_generate" /\ out' = Append(out, Say("Regenerating master key"))
           ELSE pc' = "exit0" /\ out' = Append(out, Say("Keeping existing key"))
    /\ UNCHANGED <<fsVars, held, tool, start, totalShares, threshold, key, shares, decVars, pipeVars, bruteVars, lab>>

\* generateMasterKey and main, lines 82-86
GenGenerateMasterKey ==
    /\ pc = "gen_generate"
    /\ \/ \* rand.Read fails
          /\ pc' = "exit1"
          /\ out' = Append(out, Say("Failed to generate master key"))
          /\ UNCHANGED <<keyFile, key>>
       \/ \* os.WriteFile fails (the file cannot be opened for writing)
          /\ pc' = "exit1"
          /\ out' = Append(out, Say("Failed to generate master key"))
          /\ UNCHANGED <<keyFile, key>>
       \/ \E k \in RandomKeys :
          /\ keyFile' = FileOf(HexEncode(k))
          /\ key' = k
          /\ out' = Append(out, Say("Generated new 256-bit master key"))
          /\ pc' = "gen_cleanup"
    /\ UNCHANGED <<env, keyInfo, testFile, held, tool, start, totalShares, threshold,
                   shares, response, decVars, pipeVars, bruteVars, lab>>

\* the path `decrypt create-test` writes the test file to (decrypt.go:216)
TestFilePath ==
    <<"/", "a", "p", "p", "/", "t", "e", "s", "t", "_", "h", "e", "l", "l", "o",
      ".", "e", "n", "c", "r", "y", "p", "t", "e", "d">>

\* cleanupOldTestFile, on the path loadConfig took from TEST_FILE: os.Stat
\* finds the test file only if that is its path, and a failed os.Remove is
\* passed over in silence
GenCleanupOldTestFile ==
    /\ pc = "gen_cleanup"
    /\ pc' = "gen_shares"
    /\ IF getConfigValue(env, "TEST_FILE", TestFilePath) = TestFilePath /\ testFile.exists
       THEN \/ testFile' = NoTest /\ out' = Append(out, Say("Removed old test file"))
            \/ UNCHANGED <<testFile, out>>
       ELSE UNCHANGED <<testFile, out>>
    /\ UNCHANGED <<env, keyFile, keyInfo, held, tool, start, genVars, decVars, pipeVars, bruteVars, lab>>

\* createKeyShares and main, lines 90-94
GenCreateKeyShares ==
    /\ pc = "gen_shares"
    /\ LET keyBytes == HexDecode(HexEncode(key))
       IN  IF keyBytes.ok /\ SplitOk(keyBytes.bytes, totalShares, threshold)
           THEN \E c \in 1..MaxCoef, off \in {0} :
                /\ shares' = [i \in 1..totalShares |->
                     HexEncode(Split(keyBytes.bytes, totalShares, threshold, c, off)[i])]
                /\ out' = out \o <<Say("Creating key shares"), Say("Created key shares successfully")>>
                /\ pc' = "gen_display"
           ELSE /\ shares' = shares
                /\ out' = out \o <<Say("Creating key shares"), Say("Failed to create key shares")>>
                /\ pc' = "exit1"
    /\ UNCHANGED <<fsVars, held, tool, start, totalShares, threshold, key, response, decVars, pipeVars, bruteVars, lab>>

\* displayKeyShares
GenDisplayKeyShares ==
    /\ pc = "gen_display"
    /\ out' = out \o [i \in 1..Len(shares) |-> Ev("KEY SHARE", shares[i])]
    /\ held' = shares
    /\ pc' = "gen_saveinfo"
    /\ UNCHANGED <<fsVars, tool, start, genVars, decVars, pipeVars, bruteVars, lab>>

\* saveKeyInfo and main, lines 98-112
GenSaveKeyInfo ==
    /\ pc = "gen_saveinfo"
    /\ \/ /\ keyInfo' = [exists |-> TRUE, parses |-> TRUE, hex |-> HexEncode(key),
                         total |-> totalShares, required |-> threshold]
          /\ out' = out \o <<Say("Key information saved"),
                             Say("Encryption setup completed successfully")>>
          /\ pc' = "exit0"
       \/ \* os.WriteFile fails (the file cannot be opened for writing)
          /\ keyInfo' = keyInfo
          /\ out' = Append(out, Say("Failed to save key info"))
          /\ pc' = "exit1"
    /\ UNCHANGED <<env, keyFile, testFile, held, tool, start, genVars, decVars, pipeVars, bruteVars, lab>>

\* the process ends; its memory and its terminal are gone
ToolExit ==
    /\ pc \in {"exit0", "exit1", "exit2"}
    /\ pc' = "idle"
    /\ tool' = "none"
    /\ out' = <<>>
    /\ start' = NoStart
    /\ GenLocalsReset
    /\ DecLocalsReset
    /\ PipeLocalsReset
    /\ BruteLocalsReset
    /\ UNCHANGED <<fsVars, held, now, files, dirs, cracks, lab>>

GenNext ==
    \/ GenStart
    \/ GenMkdir
    \/ GenStat
    \/ GenPrompt
    \/ GenGenerateMasterKey
    \/ GenCleanupOldTestFile
    \/ GenCreateKeyShares
    \/ GenDisplayKeyShares
    \/ GenSaveKeyInfo

(***************************************************************************)
(* Decrypt tool (cmd/test/decrypt.go)                                      *)
(***************************************************************************)
\* number of distinct nonces crypto/rand may return
MaxNonce == 1

\* cipher.NewGCM: gcm.NonceSize()
NonceSize == 12

\* aes.NewCipher accepts 16, 24 and 32 byte keys only
AesKeyOk(k) == Len(k) \in {16, 24, 32}

\* gcm.Seal(nonce, nonce, plaintext, nil)
Seal(k, nonce, pt) == [nonce |-> nonce, key |-> k, pt |-> pt, intact |-> TRUE]

\* gcm.Open: the tag matches under the sealing key only, on an intact blob
OpenOk(k, blob) == blob.intact /\ blob.key = k

HelloWorld == <<"h", "e", "l", "l", "o", " ", "w", "o", "r", "l", "d", "!">>

\* createTestFile (decrypt.go:189-227), the whole of `decrypt create-test`
DecCreateTestFile ==
    /\ pc = "idle"
    /\ tool' = "create-test"
    /\ pc' = "exit0"
    /\ start' = Snapshot
    /\ LET keyStr == TrimSpace(keyFile.data)
           dec == HexDecode(keyStr)
       IN  IF ~keyFile.exists
           THEN /\ out' = <<Say("Cannot read master key")>>
                /\ UNCHANGED <<testFile, masterKey>>
           ELSE IF ~dec.ok
           THEN /\ out' = <<Say("Cannot decode master key")>>
                /\ UNCHANGED <<testFile, masterKey>>
           ELSE IF ~AesKeyOk(dec.bytes)
           THEN /\ out' = <<Say("Encryption failed")>>
                /\ masterKey' = dec.bytes
                /\ UNCHANGED testFile
           ELSE /\ masterKey' = dec.bytes
                /\ \/ \* rand.Read fails in encryptData
                      /\ out' = <<Say("Encryption failed")>>
                      /\ UNCHANGED testFile
                   \/ \* os.WriteFile fails
                      /\ out' = <<Say("Failed to save test file")>>
                      /\ UNCHANGED testFile
                   \/ \E n \in 1..MaxNonce :
                      /\ testFile' = [exists |-> TRUE, blob |-> Seal(dec.bytes, n, HelloWorld)]
                      /\ out' = <<Say("Test file created"),
                                  Say("Contains encrypted: hello world!"),
                                  Ev("Encrypted with master key", HexEncode(dec.bytes))>>
    /\ UNCHANGED <<env, keyFile, keyInfo, held, genVars, required, filePath, entered, pipeVars, bruteVars, lab>>

\* loadKeyInfo
loadKeyInfo == [ok |-> keyInfo.exists /\ keyInfo.parses, required |-> keyInfo.required]

\* runInteractiveTest, lines 118-129
DecStart ==
    /\ pc = "idle"
    /\ tool' = "decrypt"
    /\ pc' = "dec_path"
    /\ start' = Snapshot
    /\ IF loadKeyInfo.ok
       THEN /\ required' = loadKeyInfo.required
            /\ out' = <<Say("Snapshot decryption mode")>>
       ELSE /\ required' = 3
            /\ out' = <<Say("Snapshot decryption mode"), Say("Failed to load key info"),
                        Say("Using default: 3 shares required")>>
    /\ UNCHANGED <<fsVars, held, genVars, filePath, entered, masterKey, pipeVars, bruteVars, lab>>

\* the paths the operator may name: the test archive, or a file that is not there
Paths == {"/app/test_hello.encrypted", "/app/missing.encrypted"}

PathExists(p) == p = "/app/test_hello.encrypted" /\ testFile.exists

\* runInteractiveTest, lines 131-141
DecFilePath ==
    /\ pc = "dec_path"
    /\ \E p \in Paths :
        /\ filePath' = p
        /\ IF PathExists(p)
           THEN pc' = "dec_shares" /\ out' = out
           ELSE pc' = "exit0" /\ out' = Append(out, Say("File not found"))
    /\ UNCHANGED <<fsVars, held, tool, start, genVars, required, entered, masterKey, pipeVars, bruteVars, lab>>

\* a share the operator forged: the right length, x = 9, all other bytes 1
ForgedShare == HexEncode(Rep(1, keyLengthBytes) \o <<9>>)

\* a share the operator mistyped: not hex
MistypedShare == <<"z", "z">>

\* the ways the operator may answer `n` share prompts: the held shares in
\* order, or with the first answer a repeated, a forged or a mistyped share
Entries(n) ==
    LET base == [i \in 1..n |-> IF i <= Len(held) THEN held[i] ELSE ForgedShare]
    IN  IF n = 0 THEN {<<>>}
        ELSE {base, [base EXCEPT ![1] = base[n]], [base EXCEPT ![1] = ForgedShare],
              [base EXCEPT ![1] = MistypedShare]}

\* runInteractiveTest, lines 143-149
DecReadShares ==
    /\ pc = "dec_shares"
    /\ \E lines \in Entries(required) :
        entered' = [i \in 1..required |-> TrimSpace(Scanln(lines[i]))]
    /\ pc' = "dec_combine"
    /\ out' = out
    /\ UNCHANGED <<fsVars, held, tool, start, genVars, required, filePath, masterKey, pipeVars, bruteVars, lab>>

\* runInteractiveTest, lines 151-172: hex.DecodeString, shamir.Combine and the
\* line printed after them
DecCombine ==
    /\ pc = "dec_combine"
    /\ LET shareBytes == [i \in 1..Len(entered) |-> HexDecode(entered[i])]
           parts == [i \in 1..Len(entered) |-> shareBytes[i].bytes]
       IN  IF \E i \in 1..Len(entered) : ~shareBytes[i].ok
           THEN /\ out' = Append(out, Say("Invalid hex in share"))
                /\ pc' = "exit0"
                /\ UNCHANGED masterKey
           ELSE IF ~CombineOk(parts)
           THEN /\ out' = Append(out, Say("Failed to reconstruct key"))
                /\ pc' = "exit0"
                /\ UNCHANGED masterKey
           ELSE /\ masterKey' = Combine(parts)
                /\ out' = Append(out, Ev("Master key reconstructed",
                                         HexEncode(Combine(parts))))
                /\ pc' = "dec_decrypt"
    /\ UNCHANGED <<fsVars, held, tool, start, genVars, required, filePath, entered, pipeVars, bruteVars, lab>>

\* decryptFile (decrypt.go:251-280)
decryptFile(p, k) ==
    IF ~PathExists(p) THEN [ok |-> FALSE, pt |-> <<>>]
    ELSE IF ~AesKeyOk(k) THEN [ok |-> FALSE, pt |-> <<>>]
    ELSE IF ~OpenOk(k, testFile.blob) THEN [ok |-> FALSE, pt |-> <<>>]
    ELSE [ok |-> TRUE, pt |-> testFile.blob.pt]

\* runInteractiveTest, lines 174-187
DecDecrypt ==
    /\ pc = "dec_decrypt"
    /\ pc' = "exit0"
    /\ IF decryptFile(filePath, masterKey).ok
       THEN out' = out \o <<Say("Decrypting snapshot"), Say("SUCCESS! Decrypted snapshot"),
                            Say("Decryption completed successfully")>>
       ELSE out' = out \o <<Say("Decrypting snapshot"), Say("Decryption failed")>>
    /\ UNCHANGED <<fsVars, held, tool, start, genVars, decVars, pipeVars, bruteVars, lab>>

DecNext ==
    \/ DecCreateTestFile
    \/ DecStart
    \/ DecFilePath
    \/ DecReadShares
    \/ DecCombine
    \/ DecDecrypt

(***************************************************************************)
(* Configurations of /app/.env the runs are checked under                  *)
(***************************************************************************)
Entry(k, v) == <<k, v>>

ShamirEnvs ==
    { NoEnv,
      EnvOf(<<Entry("SHAMIR_THRESHOLD", <<"2">>)>>),
      EnvOf(<<Entry("SHAMIR_TOTAL_SHARES", <<"2">>), Entry("SHAMIR_THRESHOLD", <<"3">>)>>),
      EnvOf(<<Entry("SHAMIR_THRESHOLD", <<"1">>)>>),
      EnvOf(<<Entry("SHAMIR_TOTAL_SHARES", <<"3">>), Entry("SHAMIR_THRESHOLD", <<"0">>)>>),
      EnvOf(<<Entry("SHAMIR_TOTAL_SHARES", <<"2">>), Entry("SHAMIR_THRESHOLD", <<"-", "1">>)>>),
      EnvOf(<<Entry("SHAMIR_THRESHOLD", <<"x">>), Entry("SHAMIR_TOTAL_SHARES", <<>>)>>),
      EnvOf(<<Entry("SHAMIR_TOTAL_SHARES", <<"0">>), Entry("SHAMIR_THRESHOLD", <<"2">>)>>),
      EnvOf(<<Entry("SHAMIR_TOTAL_SHARES", <<"2", "5", "6">>),
              Entry("SHAMIR_THRESHOLD", <<"2">>)>>) }

\* /app/.env names another test file than the one the decrypt tool writes
TestFileEnvs == {EnvOf(<<Entry("TEST_FILE", <<"/", "t", "m", "p", "/", "t">>)>>)}

\* the key directory before the first run: empty, or holding the key of an
\* earlier 3-of-3 generation whose shares the operator keeps
EarlierKey == KeyBytes(1)

EarlierShares ==
    [i \in 1..defaultTotalShares |->
        HexEncode(Split(EarlierKey, defaultTotalShares, defaultThreshold, 1, 0)[i])]

\* no snapshot has been taken and no pipeline runs
PipeIdle ==
    /\ now = 0
    /\ files = {}
    /\ dirs = {<<>>}
    /\ calls = <<>>
    /\ diskImagePath = NoPath
    /\ swept = <<>>

\* no brute-force test runs
BruteIdle ==
    /\ workers = 0
    /\ wpc = <<>>
    /\ localAttempts = <<>>
    /\ attempts = 0
    /\ mu = 0
    /\ done = "open"
    /\ timer = "none"

Init ==
    /\ env \in ShamirEnvs \cup TestFileEnvs
    /\ \/ keyFile = NoFile /\ keyInfo = NoInfo /\ held = <<>>
       \/ /\ keyFile = FileOf(HexEncode(EarlierKey))
          /\ keyInfo = [exists |-> TRUE, parses |-> TRUE, hex |-> HexEncode(EarlierKey),
                        total |-> defaultTotalShares, required |-> defaultThreshold]
          /\ held = EarlierShares
    /\ testFile = NoTest
    /\ tool = "none"
    /\ pc = "idle"
    /\ out = <<>>
    /\ start = NoStart
    /\ totalShares = 0
    /\ threshold = 0
    /\ key = <<>>
    /\ shares = <<>>
    /\ response = <<>>
    /\ required = 0
    /\ filePath = ""
    /\ entered = <<>>
    /\ masterKey = <<>>
    /\ PipeIdle
    /\ BruteIdle
    /\ lab = NoLab
    /\ cracks = <<>>

Next ==
    \/ GenNext
    \/ DecNext
    \/ ToolExit

Spec == Init /\ [][Next]_vars

(***************************************************************************)
(* The snapshot pipeline, cmd/script: main, loadMasterKey,                 *)
(* createArchitecturedDiskImage, encryptFile, checkRetentionPolicy         *)
(***************************************************************************)
\* days of wall-clock time the pipeline is followed over
MaxDays == 1

MinutesPerDay == 24 * 60

\* the instants a run can start at: the first two minutes, and the second
\* minute of each later day
TimePoints == {0} \cup {d * MinutesPerDay + 1 : d \in 0..MaxDays}

\* time.Time accessors; every instant of TimePoints lies in January 2025
Year(t) == 2025

Month(t) == 1

Day(t) == (t \div MinutesPerDay) + 1

Hour(t) == (t % MinutesPerDay) \div 60

Minute(t) == t % 60

\* now.Format("02012006_1504"): day, month, year, hour, minute
Timestamp(t) == <<Day(t), Month(t), Year(t), Hour(t), Minute(t)>>

\* filepath.Join(diskImageDir, year, day, month, hour), relative to the root
DiskImageDirPath(t) == <<Year(t), Day(t), Month(t), Hour(t)>>

\* os.MkdirAll: the directory and every ancestor
WithAncestors(d) == {SubSeq(d, 1, n) : n \in 0..Len(d)}

\* an unencrypted file content
Plain(pt) == [nonce |-> 0, key |-> <<>>, pt |-> pt, intact |-> TRUE]

IsoData == <<"i", "s", "o">>

FileAt(path, ext, t, blob) ==
    [dir |-> path.dir, stamp |-> path.stamp, ext |-> ext, mtime |-> t, blob |-> blob]

SamePath(f, g) == f.dir = g.dir /\ f.stamp = g.stamp /\ f.ext = g.ext

\* os.WriteFile / os.Create: the file at that path is replaced
WriteFile(fs, f) == {g \in fs : ~SamePath(f, g)} \cup {f}

\* os.Remove of a regular file
RemoveFile(fs, path, ext) == {g \in fs : ~(g.dir = path.dir /\ g.stamp = path.stamp /\ g.ext = ext)}

\* info.Size() of a file: nonce, ciphertext and the 16-byte tag when sealed
Size(f) == IF f.ext = ".encrypted" THEN NonceSize + Len(f.blob.pt) + 16 ELSE Len(f.blob.pt)

loadMasterKeyStale(f) == [ok |-> TRUE, err |-> "", key |-> KeyBytes(1)]

loadMasterKeyBad(f) ==
    LET dec == HexDecode(TrimSpace(f.data))
    IN  IF ~f.exists THEN [ok |-> FALSE, err |-> "failed to read master key", key |-> <<>>]
        ELSE IF ~dec.ok THEN [ok |-> FALSE, err |-> "failed to decode master key", key |-> <<>>]
        ELSE [ok |-> TRUE, err |-> "", key |-> dec.bytes]

\* loadMasterKey: read, trim, hex-decode, require 32 bytes
loadMasterKey(f) ==
    LET dec == HexDecode(TrimSpace(f.data))
    IN  IF ~f.exists THEN [ok |-> FALSE, err |-> "failed to read master key", key |-> <<>>]
        ELSE IF ~dec.ok THEN [ok |-> FALSE, err |-> "failed to decode master key", key |-> <<>>]
        ELSE IF Len(dec.bytes) # keyLengthBytes
             THEN [ok |-> FALSE, err |-> "invalid key length", key |-> <<>>]
        ELSE [ok |-> TRUE, err |-> "", key |-> dec.bytes]

RECURSIVE ScanRetentionBad(_)
ScanRetentionBad(entries) ==
    IF entries = <<>> THEN 1
    ELSE LET k == Head(entries)[1]
             a == Atoi(TrimSpace(Head(entries)[2]))
         IN  IF k = "DAY_RETENTION" /\ a.ok /\ a.val >= 0 THEN a.val
             ELSE ScanRetentionBad(Tail(entries))

\* getRetentionDays, the scanner loop: the first DAY_RETENTION line whose value
\* parses to a number >= 0 decides, otherwise the default 0
RECURSIVE ScanRetention(_)
ScanRetention(entries) ==
    IF entries = <<>> THEN 0
    ELSE LET k == Head(entries)[1]
             a == Atoi(TrimSpace(Head(entries)[2]))
         IN  IF k = "DAY_RETENTION" /\ a.ok /\ a.val >= 0 THEN a.val
             ELSE ScanRetention(Tail(entries))

\* getRetentionDays: 0 when /app/.env cannot be opened
getRetentionDays(e) == IF e.exists THEN ScanRetention(e.entries) ELSE 0

ExpiredBad(fs, cutoffTime) == {f \in fs : f.mtime <= cutoffTime}

\* the archives the walk of checkRetentionPolicy finds older than the cutoff
Expired(fs, cutoffTime) == {f \in fs : f.ext = ".encrypted" /\ f.mtime < cutoffTime}

RECURSIVE SumSize(_)
SumSize(fs) ==
    IF fs = {} THEN 0
    ELSE LET f == CHOOSE g \in fs : TRUE IN Size(f) + SumSize(fs \ {f})

\* os.Remove of a directory succeeds only when nothing is inside it
EmptyDir(d, fs, ds) ==
    /\ \A f \in fs : f.dir # d
    /\ \A c \in ds : ~(Len(c) = Len(d) + 1 /\ SubSeq(c, 1, Len(d)) = d)

\* the order filepath.Walk visits paths in: a directory before what is in
\* it, the names of one directory in ascending order
RECURSIVE WalksBefore(_, _)
WalksBefore(a, b) ==
    IF a = <<>> THEN b # <<>>
    ELSE IF b = <<>> THEN FALSE
    ELSE IF Head(a) # Head(b) THEN Head(a) < Head(b)
    ELSE WalksBefore(Tail(a), Tail(b))

\* d is the directory u or lies below it
Under(u, d) == Len(u) <= Len(d) /\ SubSeq(d, 1, Len(u)) = u

VisitedBad(fs, unreadable) ==
    {f \in fs : unreadable = NoDir \/ WalksBefore(f.dir, unreadable)}

\* the files the walk of checkRetentionPolicy calls back for: its callback
\* answers a directory's read error with nil, and Walk then skips what is in it
Visited(fs, unreadable) == {f \in fs : ~Under(unreadable, f.dir)}

\* removeEmptyDirs: one pre-order walk; a directory is visited before its
\* children, so it goes only if it was empty when the walk began; the callback
\* returns a directory's read error, which ends the walk there
removeEmptyDirs(fs, ds, unreadable) ==
    {d \in ds : \/ d = <<>>
                \/ ~EmptyDir(d, fs, ds)
                \/ (unreadable # NoDir /\ ~WalksBefore(d, unreadable))}

\* strings.ToLower on the letters an S3_ENABLED value is written with
ToLower(v) ==
    [i \in 1..Len(v) |->
        CASE v[i] = "T" -> "t" [] v[i] = "R" -> "r" [] v[i] = "U" -> "u"
          [] v[i] = "E" -> "e" [] OTHER -> v[i]]

\* getCloudConfig: Enabled, false unless the last S3_ENABLED line says true
CloudEnabled(e) ==
    EnvHas(e, "S3_ENABLED") /\ ToLower(TrimSpace(EnvGet(e, "S3_ENABLED"))) = <<"t", "r", "u", "e">>

Called(f) == \E i \in 1..Len(calls) : calls[i] = f

otherTools == <<keyInfo, testFile, held, genVars, required, filePath, entered, bruteVars, lab>>

\* the clock moves on while no tool runs
Tick ==
    /\ pc = "idle"
    /\ \E t \in TimePoints : t > now /\ now' = t
    /\ UNCHANGED <<env, keyFile, tool, pc, out, start, masterKey, files, dirs, calls,
                   diskImagePath, swept, otherTools>>

\* main, lines 20-31: loadConfig, os.Stat(keyFile), loadMasterKey
PipeStart ==
    /\ pc = "idle"
    /\ tool' = "pipeline"
    /\ start' = Snapshot
    /\ IF ~keyFile.exists
       THEN /\ out' = <<Say("No encryption key found")>>
            /\ pc' = "exit0"
            /\ UNCHANGED <<masterKey, calls>>
       ELSE /\ calls' = <<"loadMasterKey">>
            /\ \/ LET r == loadMasterKey(keyFile)
                  IN  IF r.ok
                      THEN pc' = "pipe_path" /\ masterKey' = r.key /\ out' = <<>>
                      ELSE /\ pc' = "exit0"
                           /\ out' = <<Ev("Failed to load master key", <<r.err>>)>>
                           /\ UNCHANGED masterKey
               \* os.ReadFile fails although the file is there
               \/ /\ pc' = "exit0"
                  /\ out' = <<Ev("Failed to load master key", <<"failed to read master key">>)>>
                  /\ UNCHANGED masterKey
    /\ UNCHANGED <<env, keyFile, now, files, dirs, diskImagePath, swept, otherTools>>

\* main, lines 33-39: createArchitecturedDiskImage
PipeCreatePath ==
    /\ pc = "pipe_path"
    /\ calls' = Append(calls, "createArchitecturedDiskImage")
    /\ \/ /\ dirs' = dirs \cup WithAncestors(DiskImageDirPath(now))
          /\ diskImagePath' = [dir |-> DiskImageDirPath(now), stamp |-> Timestamp(now)]
          /\ out' = Append(out, Ev("Starting encrypted OS disk image", Timestamp(now)))
          /\ pc' = "pipe_iso"
       \/ /\ out' = Append(out, Say("Failed to create disk image path"))
          /\ pc' = "exit0"
          /\ UNCHANGED <<dirs, diskImagePath>>
    /\ UNCHANGED <<env, keyFile, tool, start, masterKey, now, files, swept, otherTools>>

\* main, lines 41-45: createCompressedISO(diskImagePath + ".iso.gz")
PipeCreateISO ==
    /\ pc = "pipe_iso"
    /\ calls' = Append(calls, "createCompressedISO")
    /\ \/ /\ files' = WriteFile(files, FileAt(diskImagePath, ".iso.gz", now, Plain(IsoData)))
          /\ pc' = "pipe_encrypt"
          /\ out' = out
       \/ /\ out' = Append(out, Say("Failed to create compressed ISO"))
          /\ pc' = "exit0"
          /\ UNCHANGED files
    /\ UNCHANGED <<env, keyFile, tool, start, masterKey, now, dirs, diskImagePath, swept, otherTools>>

\* main, lines 47-51: encryptDiskImage, that is encryptFile of crypto.go
PipeEncrypt ==
    /\ pc = "pipe_encrypt"
    /\ calls' = Append(calls, "encryptDiskImage")
    /\ \/ /\ AesKeyOk(masterKey)
          /\ \E nonce \in 1..MaxNonce :
                files' = WriteFile(files, FileAt(diskImagePath, ".encrypted", now,
                                                 Seal(masterKey, nonce, IsoData)))
          /\ out' = out \o <<Say("Encrypting disk image..."), Say("Disk image encrypted successfully")>>
          /\ pc' = "pipe_rmiso"
       \* ReadFile, aes.NewCipher, rand.Read or WriteFile returns an error
       \/ /\ out' = out \o <<Say("Encrypting disk image..."), Say("Failed to encrypt ISO")>>
          /\ pc' = "exit0"
          /\ UNCHANGED files
    /\ UNCHANGED <<env, keyFile, tool, start, masterKey, now, dirs, diskImagePath, swept, otherTools>>

\* main, lines 53-59: os.Remove(isoPath), then the statistics
PipeRemoveISO ==
    /\ pc = "pipe_rmiso"
    /\ \/ files' = RemoveFile(files, diskImagePath, ".iso.gz") /\ out' = out
       \/ files' = files /\ out' = Append(out, Say("Failed to remove ISO"))
    /\ pc' = "pipe_retention"
    /\ UNCHANGED <<env, keyFile, tool, start, masterKey, now, dirs, calls, diskImagePath,
                   swept, otherTools>>

PrunedBad(removed, fs, ds, unreadable) == removeEmptyDirs(fs, ds, unreadable)

\* checkRetentionPolicy, lines 345-347: removeEmptyDirs runs only when the
\* walk removed something
Pruned(removed, fs, ds, unreadable) ==
    IF removed # {} THEN removeEmptyDirs(fs, ds, unreadable) ELSE ds

\* checkRetentionPolicy at the instant `now`, with the removeEmptyDirs it
\* ends in: one directory may be unreadable, any removal may fail
checkRetentionPolicy ==
    LET retentionDays == getRetentionDays(env)
        cutoffTime == now - retentionDays * MinutesPerDay
    IN  IF retentionDays <= 0
        THEN UNCHANGED <<files, dirs, out, swept>>
        ELSE \E unreadable \in dirs \cup {NoDir} :
               LET old == Expired(Visited(files, unreadable), cutoffTime)
               IN  \E failed \in SUBSET old :
                     LET removed == old \ failed
                     IN  /\ files' = files \ removed
                         /\ swept' = Append(swept,
                                        [files |-> files, dirs |-> dirs,
                                         cutoffTime |-> cutoffTime,
                                         unreadable |-> unreadable, failed |-> failed])
                         /\ dirs' = Pruned(removed, files', dirs, unreadable)
                         /\ IF removed # {}
                            THEN /\ out' = out \o
                                      <<Ev("Checking retention policy", <<retentionDays>>),
                                        Ev("Retention cleanup complete",
                                           <<Cardinality(removed), SumSize(old)>>)>>
                            ELSE /\ out' = Append(out, Ev("Checking retention policy",
                                                          <<retentionDays>>))

\* main, line 61: checkRetentionPolicy()
PipeRetention ==
    /\ pc = "pipe_retention"
    /\ calls' = Append(calls, "checkRetentionPolicy")
    /\ pc' = "pipe_upload"
    /\ checkRetentionPolicy
    /\ UNCHANGED <<env, keyFile, tool, start, masterKey, now, diskImagePath, otherTools>>

\* main, line 63: uploadToCloud
PipeUpload ==
    /\ pc = "pipe_upload"
    /\ calls' = Append(calls, "uploadToCloud")
    /\ pc' = "pipe_info"
    /\ IF ~CloudEnabled(env)
       THEN out' = out
       ELSE \/ out' = out \o <<Say("Uploading disk image"), Say("Successfully uploaded to S3")>>
            \/ out' = out \o <<Say("Uploading disk image"), Say("Failed to upload to S3")>>
    /\ UNCHANGED <<env, keyFile, tool, start, masterKey, now, files, dirs, diskImagePath,
                   swept, otherTools>>

\* main, lines 65-69: updateSnapshotInfoFile and the closing line
PipeUpdateInfo ==
    /\ pc = "pipe_info"
    /\ calls' = Append(calls, "updateSnapshotInfoFile")
    /\ pc' = "exit0"
    /\ \/ out' = Append(out, Say("Encrypted disk image has been saved"))
       \/ out' = out \o <<Say("Failed to update snapshot info file"),
                          Say("Encrypted disk image has been saved")>>
    /\ UNCHANGED <<env, keyFile, tool, start, masterKey, now, files, dirs, diskImagePath,
                   swept, otherTools>>

PipeNext ==
    \/ Tick
    \/ PipeStart
    \/ PipeCreatePath
    \/ PipeCreateISO
    \/ PipeEncrypt
    \/ PipeRemoveISO
    \/ PipeRetention
    \/ PipeUpload
    \/ PipeUpdateInfo
    \/ ToolExit

\* the key files a pipeline run can find
PipeKeyFiles ==
    { NoFile,
      FileOf(<<" ">> \o HexEncode(EarlierKey) \o <<"\n">>),
      FileOf(<<>>),
      FileOf(Rep("a", 2 * keyLengthBytes - 2)),
      FileOf(Rep("a", 2 * keyLengthBytes + 2)),
      FileOf(Rep("a", 2 * keyLengthBytes - 1)),
      FileOf(Rep("a", 2 * keyLengthBytes - 1) \o <<"g">>),
      FileOf(Rep("a", keyLengthBytes) \o <<" ">> \o Rep("a", keyLengthBytes)) }

\* the /app/.env files a pipeline run can find
RetentionEnvs ==
    { NoEnv,
      EnvOf(<<Entry("DAY_RETENTION", <<"0">>)>>),
      EnvOf(<<Entry("DAY_RETENTION", <<"-", "1">>), Entry("S3_ENABLED", <<"T", "r", "u", "e">>)>>),
      EnvOf(<<Entry("DAY_RETENTION", <<"a", "b", "c">>), Entry("DAY_RETENTION", <<>>)>>),
      EnvOf(<<Entry("DAY_RETENTION", <<"1">>)>>),
      EnvOf(<<Entry("DAY_RETENTION", <<"1", "d">>), Entry("DAY_RETENTION", <<"1">>),
              Entry("S3_ENABLED", <<"t", "r", "u", "e">>)>>) }

GenDecIdle ==
    /\ keyInfo = NoInfo
    /\ testFile = NoTest
    /\ held = <<>>
    /\ tool = "none"
    /\ pc = "idle"
    /\ out = <<>>
    /\ start = NoStart
    /\ totalShares = 0
    /\ threshold = 0
    /\ key = <<>>
    /\ shares = <<>>
    /\ response = <<>>
    /\ required = 0
    /\ filePath = ""
    /\ entered = <<>>
    /\ masterKey = <<>>

InitPipe ==
    /\ env \in RetentionEnvs
    /\ keyFile \in PipeKeyFiles
    /\ GenDecIdle
    /\ PipeIdle
    /\ BruteIdle
    /\ lab = NoLab
    /\ cracks = <<>>

SpecPipe == InitPipe /\ [][PipeNext]_vars

(***************************************************************************)
(* The retention sweep on a store that earlier runs have filled, and a      *)
(* harness that calls checkRetentionPolicy twice in succession              *)
(***************************************************************************)
\* the archive a run at the minute t leaves at its path
ArchiveOf(t) ==
    FileAt([dir |-> DiskImageDirPath(t), stamp |-> Timestamp(t)], ".encrypted", t,
           Seal(EarlierKey, 1, IsoData))

\* the .iso.gz a run at the minute t leaves when its os.Remove failed
LeftoverOf(t) ==
    FileAt([dir |-> DiskImageDirPath(t), stamp |-> Timestamp(t)], ".iso.gz", t, Plain(IsoData))

\* the minutes of the earlier runs: three hours of the first day
PastTimes == {0, 60, 120}

\* the instant of the sweep, more than a day after the last of the earlier runs
SweepTime == MinutesPerDay + 121

\* first call of the harness
SweepFirst ==
    /\ pc = "idle"
    /\ tool' = "sweep"
    /\ start' = Snapshot
    /\ calls' = <<"checkRetentionPolicy">>
    /\ pc' = "sweep_again"
    /\ checkRetentionPolicy
    /\ UNCHANGED <<env, keyFile, masterKey, now, diskImagePath, otherTools>>

\* second call of the harness, nothing in between
SweepAgain ==
    /\ pc = "sweep_again"
    /\ calls' = Append(calls, "checkRetentionPolicy")
    /\ pc' = "exit0"
    /\ checkRetentionPolicy
    /\ UNCHANGED <<env, keyFile, tool, start, masterKey, now, diskImagePath, otherTools>>

SweepNext ==
    \/ PipeStart
    \/ PipeCreatePath
    \/ PipeCreateISO
    \/ PipeEncrypt
    \/ PipeRemoveISO
    \/ PipeRetention
    \/ PipeUpload
    \/ PipeUpdateInfo
    \/ SweepFirst
    \/ SweepAgain
    \/ ToolExit

InitSweep ==
    /\ env \in {e \in RetentionEnvs : getRetentionDays(e) > 0}
    /\ keyFile = FileOf(HexEncode(EarlierKey))
    /\ GenDecIdle
    /\ BruteIdle
    /\ lab = NoLab
    /\ cracks = <<>>
    /\ now = SweepTime
    /\ calls = <<>>
    /\ diskImagePath = NoPath
    /\ swept = <<>>
    /\ \E T \in SUBSET PastTimes :
         /\ dirs = {<<>>} \cup UNION {WithAncestors(DiskImageDirPath(t)) : t \in T}
         /\ \E L \in SUBSET T :
              files = {ArchiveOf(t) : t \in T} \cup {LeftoverOf(t) : t \in L}

SpecSweep == InitSweep /\ [][SweepNext]_vars

(***************************************************************************)
(* The cryptographic functions called on their own: encryptData and         *)
(* encryptFile against decryptFile, createKeyShares against shamir.Combine  *)
(***************************************************************************)
\* shares a split is asked for at most
MaxParts == 3

\* the sealed box of no AEAD call
NoBox == [key |-> <<>>, nonce |-> <<>>, pt |-> <<>>]

\* the 12 bytes crypto/rand returns for a nonce: one of MaxNonce values
NonceBytes(n) == Rep(n, NonceSize)

\* the bytes of a blob. A byte of the nonce is known by its value; a byte of
\* ciphertext or tag is known by the sealed box it belongs to and its place in
\* it, and one changed bit gives a byte of no sealed box
AsCells(bytes) == [i \in 1..Len(bytes) |-> [v |-> bytes[i], of |-> NoBox]]

AsBytes(cells) == [i \in 1..Len(cells) |-> cells[i].v]

\* ciphertext and 16-byte tag of plaintext pt under key k and nonce
Sealed(box) == [i \in 1..(Len(box.pt) + 16) |-> [v |-> i, of |-> box]]

GcmSealBad(dst, k, nonce, pt) == Sealed([key |-> k, nonce |-> nonce, pt |-> pt])

\* gcm.Seal(dst, nonce, plaintext, nil): dst, followed by ciphertext and tag
GcmSeal(dst, k, nonce, pt) == dst \o Sealed([key |-> k, nonce |-> nonce, pt |-> pt])

GcmOpenBad(k, nonce, ciphertext) ==
    IF Len(ciphertext) >= 16 /\ ciphertext = Sealed(ciphertext[1].of)
    THEN [ok |-> TRUE, err |-> "", pt |-> ciphertext[1].of.pt]
    ELSE [ok |-> FALSE, err |-> "cipher: message authentication failed", pt |-> <<>>]

\* gcm.Open(nil, nonce, ciphertext, nil): the plaintext when ciphertext and tag
\* are those of one box sealed under this key and this nonce, else an error
GcmOpen(k, nonce, ciphertext) ==
    IF /\ Len(ciphertext) >= 16
       /\ ciphertext = Sealed(ciphertext[1].of)
       /\ ciphertext[1].of.key = k
       /\ ciphertext[1].of.nonce = nonce
    THEN [ok |-> TRUE, err |-> "", pt |-> ciphertext[1].of.pt]
    ELSE [ok |-> FALSE, err |-> "cipher: message authentication failed", pt |-> <<>>]

\* encryptData (decrypt.go:230-248); nonce is what rand.Read fills in
encryptData(plaintext, k, nonce) ==
    IF ~AesKeyOk(k) THEN [ok |-> FALSE, blob |-> <<>>]
    ELSE [ok |-> TRUE, blob |-> GcmSeal(AsCells(nonce), k, nonce, plaintext)]

\* encryptFile (crypto.go:106-136) on the bytes read from srcFile
encryptFile(plaintext, k, nonce) ==
    IF ~AesKeyOk(k) THEN [ok |-> FALSE, blob |-> <<>>]
    ELSE [ok |-> TRUE, blob |-> GcmSeal(AsCells(nonce), k, nonce, plaintext)]

\* decryptFile (decrypt.go:251-280) on the bytes read from the file
decryptBytes(ciphertext, k) ==
    IF ~AesKeyOk(k)
    THEN [ok |-> FALSE, err |-> "crypto/aes: invalid key size", pt |-> <<>>]
    ELSE IF Len(ciphertext) < NonceSize
    THEN [ok |-> FALSE, err |-> "ciphertext too short", pt |-> <<>>]
    ELSE GcmOpen(k, AsBytes(SubSeq(ciphertext, 1, NonceSize)),
                 SubSeq(ciphertext, NonceSize + 1, Len(ciphertext)))

\* createKeyShares (part_004:130-150): hex.DecodeString, shamir.Split,
\* hex.EncodeToString of every share
createKeyShares(keyHex, totalShares_, requiredShares, c, off) ==
    LET dec == HexDecode(keyHex)
        sh == Split(dec.bytes, totalShares_, requiredShares, c, off)
    IN  [i \in 1..totalShares_ |-> HexEncode(sh[i])]

\* runSimpleTest, lines 85-100: hex.DecodeString of each typed share, then
\* shamir.Combine
reconstruct(typed) ==
    LET dec == [i \in 1..Len(typed) |-> HexDecode(TrimSpace(typed[i]))]
        parts == [i \in 1..Len(typed) |-> dec[i].bytes]
    IN  IF \E i \in 1..Len(typed) : ~dec[i].ok
        THEN [ok |-> FALSE, err |-> "Invalid hex in share", key |-> <<>>]
        ELSE IF ~CombineOk(parts)
        THEN [ok |-> FALSE, err |-> "Failed to reconstruct key", key |-> <<>>]
        ELSE [ok |-> TRUE, err |-> "", key |-> Combine(parts)]

\* the plaintexts tried
Plaintexts == {<<>>, HelloWorld, IsoData}

\* the (n, t) a split is asked for
Shapes == {s \in (2..MaxParts) \X (2..MaxParts) : s[2] <= s[1]}

\* the shares handed to Combine: two or more different ones, in rising or
\* falling order
Picks(n) ==
    {p \in UNION {[1..m -> 1..n] : m \in 2..n} :
        \/ \A i \in 1..(Len(p) - 1) : p[i] < p[i + 1]
        \/ \A i \in 1..(Len(p) - 1) : p[i] > p[i + 1]}

\* one bit of one byte changed
FlipBit(blob, i, b) == [blob EXCEPT ![i].v = Xor(blob[i].v, 2 ^ b)]

labRest == <<fsVars, held, tool, pc, out, start, genVars, decVars, pipeVars, bruteVars>>

\* generateMasterKey: 32 bytes of crypto/rand
LabKey ==
    /\ lab.stage = "start"
    /\ \E k \in RandomKeys : lab' = [lab EXCEPT !.stage = "keyed", !.key = k]
    /\ UNCHANGED labRest

\* createKeyShares of the key for a valid (n, t)
LabSplit ==
    /\ lab.stage = "keyed"
    /\ lab.shares = <<>>
    /\ lab.via = ""
    /\ \E s \in Shapes, c \in 0..MaxCoef, off \in {0, ShamirMaxParts - 1} :
          lab' = [lab EXCEPT !.n = s[1], !.t = s[2], !.c = c,
                             !.shares = createKeyShares(HexEncode(lab.key), s[1], s[2], c, off)]
    /\ UNCHANGED labRest

\* encryptFile or encryptData under the key; createTestFile seals
\* "hello world!" with encryptData
LabEncrypt ==
    /\ lab.stage = "keyed"
    /\ lab.via = ""
    /\ \E via \in {"encryptData", "encryptFile"}, pt \in Plaintexts, n \in 1..MaxNonce :
          /\ lab.shares # <<>> => (via = "encryptData" /\ pt = HelloWorld)
          /\ lab' = [lab EXCEPT !.via = via, !.pt = pt,
                                !.blob = IF via = "encryptData"
                                         THEN encryptData(pt, lab.key, NonceBytes(n)).blob
                                         ELSE encryptFile(pt, lab.key, NonceBytes(n)).blob]
    /\ UNCHANGED labRest

\* the blob is damaged where it is stored: one bit changed, or bytes lost
LabTamper ==
    /\ lab.stage = "keyed"
    /\ lab.via # ""
    /\ lab.shares = <<>>
    /\ lab.tamper = ""
    /\ \/ \E i \in 1..Len(lab.blob), b \in {0, 7} :
             lab' = [lab EXCEPT !.tamper = "bit", !.blob = FlipBit(lab.blob, i, b)]
       \/ \E m \in {0, NonceSize - 1} :
             lab' = [lab EXCEPT !.tamper = "short", !.blob = SubSeq(lab.blob, 1, m)]
       \/ \E m \in {NonceSize, Len(lab.blob) - 1} :
             lab' = [lab EXCEPT !.tamper = "cut", !.blob = SubSeq(lab.blob, 1, m)]
    /\ UNCHANGED labRest

\* a key is at hand without shares: the sealing key or another one
LabUseKey ==
    /\ lab.stage = "keyed"
    /\ lab.via # ""
    /\ lab.shares = <<>>
    /\ \E k \in RandomKeys \cup {Rep(1, keyLengthBytes - 1)} :
          lab' = [lab EXCEPT !.stage = "combined", !.used = [ok |-> TRUE, err |-> "", key |-> k]]
    /\ UNCHANGED labRest

\* the key is reconstructed from some of the shares
LabCombine ==
    /\ lab.stage = "keyed"
    /\ lab.shares # <<>>
    /\ \E p \in Picks(lab.n) :
          lab' = [lab EXCEPT !.stage = "combined", !.picked = p,
                             !.used = reconstruct([i \in 1..Len(p) |-> lab.shares[p[i]]])]
    /\ UNCHANGED labRest

\* decryptFile of the blob with the key at hand
LabDecrypt ==
    /\ lab.stage = "combined"
    /\ lab.via # ""
    /\ lab.used.ok
    /\ lab' = [lab EXCEPT !.stage = "opened", !.res = decryptBytes(lab.blob, lab.used.key)]
    /\ UNCHANGED labRest

LabNext ==
    \/ LabKey
    \/ LabSplit
    \/ LabEncrypt
    \/ LabTamper
    \/ LabUseKey
    \/ LabCombine
    \/ LabDecrypt

InitLab ==
    /\ env = NoEnv
    /\ keyFile = NoFile
    /\ GenDecIdle
    /\ PipeIdle
    /\ BruteIdle
    /\ lab = NoLab
    /\ cracks = <<>>

SpecLab == InitLab /\ [][LabNext]_vars

(***************************************************************************)
(* Key regeneration next to the tools that encrypt: runs of the key         *)
(* generator, of `decrypt create-test` and of the snapshot pipeline, one    *)
(* after the other, on one key directory                                    *)
(***************************************************************************)
\* the key file the earlier generation wrote
EarlierKeyFile == FileOf(HexEncode(EarlierKey))

RegenNext ==
    \/ GenNext
    \/ DecCreateTestFile
    \/ PipeStart
    \/ PipeCreatePath
    \/ PipeCreateISO
    \/ PipeEncrypt
    \/ PipeRemoveISO
    \/ PipeRetention
    \/ PipeUpload
    \/ PipeUpdateInfo
    \/ ToolExit

\* the key directory holds the key of an earlier 3-of-3 generation
InitRegen ==
    /\ env = NoEnv
    /\ keyFile = EarlierKeyFile
    /\ keyInfo = [exists |-> TRUE, parses |-> TRUE, hex |-> HexEncode(EarlierKey),
                  total |-> defaultTotalShares, required |-> defaultThreshold]
    /\ held = EarlierShares
    /\ testFile \in {NoTest, [exists |-> TRUE, blob |-> Seal(EarlierKey, 1, HelloWorld)]}
    /\ tool = "none"
    /\ pc = "idle"
    /\ out = <<>>
    /\ start = NoStart
    /\ totalShares = 0
    /\ threshold = 0
    /\ key = <<>>
    /\ shares = <<>>
    /\ response = <<>>
    /\ required = 0
    /\ filePath = ""
    /\ entered = <<>>
    /\ masterKey = <<>>
    /\ PipeIdle
    /\ BruteIdle
    /\ lab = NoLab
    /\ cracks = <<>>

SpecRegen == InitRegen /\ [][RegenNext]_vars

(***************************************************************************)
(* The brute-force harness, test_encryption/main.go: runBruteForceTest     *)
(***************************************************************************)
\* worker goroutines a run is started with
MaxWorkers == 2

\* failed attempts a worker is followed over
MaxAttempts == 2

\* the archive the test is pointed at
TargetFile == [exists |-> TRUE, blob |-> Seal(EarlierKey, 1, HelloWorld)]

\* generateRandomShares: three hex strings of 33 random bytes each; the draws
\* followed are the three shares of the key, three that combine to another
\* key, and three of which two carry the same last byte
RandomShares ==
    << EarlierShares,
       [i \in 1..3 |-> HexEncode(Rep(7, keyLengthBytes) \o <<i>>)],
       [i \in 1..3 |-> HexEncode(Rep(i, keyLengthBytes) \o <<1>>)] >>

\* decryptFile of test_encryption/main.go: hex-decode, Combine, read, open
bruteDecryptFile(file, randomShares) ==
    LET dec == [i \in 1..Len(randomShares) |-> HexDecode(randomShares[i])]
        parts == [i \in 1..Len(randomShares) |-> dec[i].bytes]
    IN  /\ \A i \in 1..Len(randomShares) : dec[i].ok
        /\ CombineOk(parts)
        /\ file.exists
        /\ AesKeyOk(Combine(parts))
        /\ OpenOk(Combine(parts), file.blob)

Workers == 1..workers

\* the process is running: it has neither exited nor panicked
Alive == pc \in {"brute_arm", "brute_wait", "brute_menu"}

bruteRest == <<fsVars, held, tool, start, genVars, decVars, pipeVars, lab>>

\* close(done): a second close panics and ends the process
CloseDone ==
    IF done = "open"
    THEN done' = "closed" /\ pc' = pc /\ out' = out
    ELSE done' = done /\ pc' = "exit2" /\ out' = Append(out, Say("panic: close of closed channel"))

\* runBruteForceTest, lines 199-244: the channel is made and the workers started
BruteStart ==
    /\ pc = "idle"
    /\ testFile = TargetFile
    /\ \E n \in 1..MaxWorkers :
          /\ workers' = n
          /\ wpc' = [w \in 1..n |-> "select"]
          /\ localAttempts' = [w \in 1..n |-> 0]
    /\ tool' = "brute"
    /\ start' = Snapshot
    /\ pc' = "brute_arm"
    /\ out' = <<Say("Starting brute force test")>>
    /\ attempts' = 0
    /\ mu' = 0
    /\ done' = "open"
    /\ timer' = "none"
    /\ UNCHANGED <<fsVars, held, genVars, decVars, pipeVars, cracks, lab>>

\* lines 247-249: time.AfterFunc arms the timer
BruteArm ==
    /\ pc = "brute_arm"
    /\ timer' = "armed"
    /\ pc' = "brute_wait"
    /\ UNCHANGED <<bruteRest, out, workers, wpc, localAttempts, attempts, mu, done, cracks>>

\* lines 247-249: the duration is over and the timer's function runs close(done)
TimerFire ==
    /\ Alive
    /\ timer = "armed"
    /\ timer' = "fired"
    /\ CloseDone
    /\ UNCHANGED <<bruteRest, workers, wpc, localAttempts, attempts, mu, cracks>>

\* lines 215-216: select finds done closed
WSelectDone(w) ==
    /\ Alive
    /\ wpc[w] = "select"
    /\ done = "closed"
    /\ wpc' = [wpc EXCEPT ![w] = "lock"]
    /\ UNCHANGED <<bruteRest, pc, out, workers, localAttempts, attempts, mu, done, timer, cracks>>

\* lines 221-223: select takes the default branch and an attempt begins
WSelectDefault(w) ==
    /\ Alive
    /\ wpc[w] = "select"
    /\ done = "open"
    /\ localAttempts[w] < MaxAttempts
    /\ wpc' = [wpc EXCEPT ![w] = "attempt"]
    /\ UNCHANGED <<bruteRest, pc, out, workers, localAttempts, attempts, mu, done, timer, cracks>>

\* line 232: a progress report is due every reportEvery-th failed attempt
reportEvery == 1000

\* lines 223-232: the attempt ends; a failure is counted, and every 1000th
\* failure leads to the progress report
WAttempt(w) ==
    /\ Alive
    /\ wpc[w] = "attempt"
    /\ \E s \in DOMAIN cracks :
          IF cracks[s]
          THEN /\ out' = Append(out, Ev("CRITICAL: ENCRYPTION CRACKED", <<w>>))
               /\ wpc' = [wpc EXCEPT ![w] = "close"]
               /\ UNCHANGED localAttempts
          ELSE /\ localAttempts' = [localAttempts EXCEPT ![w] = @ + 1]
               /\ wpc' = [wpc EXCEPT ![w] =
                              IF localAttempts'[w] % reportEvery = 0 THEN "rlock" ELSE "select"]
               /\ out' = out
    /\ UNCHANGED <<bruteRest, pc, workers, attempts, mu, done, timer, cracks>>

\* line 233: mu.Lock() before the progress report
WReportLock(w) ==
    /\ Alive
    /\ wpc[w] = "rlock"
    /\ mu = 0
    /\ mu' = w
    /\ wpc' = [wpc EXCEPT ![w] = "report"]
    /\ UNCHANGED <<bruteRest, pc, out, workers, localAttempts, attempts, done, timer, cracks>>

\* lines 234-239: totalAttempts := attempts + localAttempts is printed, then
\* mu.Unlock(); attempts itself is left as it was
WReport(w) ==
    /\ Alive
    /\ wpc[w] = "report"
    /\ out' = Append(out, Ev("Attempts", <<attempts + localAttempts[w], w>>))
    /\ mu' = 0
    /\ wpc' = [wpc EXCEPT ![w] = "select"]
    /\ UNCHANGED <<bruteRest, pc, workers, localAttempts, attempts, done, timer, cracks>>

\* lines 226-227: close(done) and return, after a success
WClose(w) ==
    /\ Alive
    /\ wpc[w] = "close"
    /\ wpc' = IF done = "open" THEN [wpc EXCEPT ![w] = "exited"] ELSE wpc
    /\ CloseDone
    /\ UNCHANGED <<bruteRest, workers, localAttempts, attempts, mu, timer, cracks>>

WLockBad(w) ==
    /\ Alive
    /\ wpc[w] = "lock"
    /\ mu' = w
    /\ wpc' = [wpc EXCEPT ![w] = "add"]
    /\ UNCHANGED <<bruteRest, pc, out, workers, localAttempts, attempts, done, timer, cracks>>

\* line 217: mu.Lock()
WLock(w) ==
    /\ Alive
    /\ wpc[w] = "lock"
    /\ mu = 0
    /\ mu' = w
    /\ wpc' = [wpc EXCEPT ![w] = "add"]
    /\ UNCHANGED <<bruteRest, pc, out, workers, localAttempts, attempts, done, timer, cracks>>

\* lines 218-220: attempts += localAttempts, mu.Unlock(), return
WAdd(w) ==
    /\ Alive
    /\ wpc[w] = "add"
    /\ attempts' = attempts + localAttempts[w]
    /\ mu' = 0
    /\ wpc' = [wpc EXCEPT ![w] = "exited"]
    /\ UNCHANGED <<bruteRest, pc, out, workers, localAttempts, done, timer, cracks>>

Worker(w) ==
    \/ WSelectDone(w)
    \/ WSelectDefault(w)
    \/ WAttempt(w)
    \/ WClose(w)
    \/ WLock(w)
    \/ WAdd(w)
    \/ WReportLock(w)
    \/ WReport(w)

\* lines 251-264: wg.Wait() returns and the results are printed
BruteWait ==
    /\ pc = "brute_wait"
    /\ \A w \in Workers : wpc[w] = "exited"
    /\ out' = out \o <<Ev("Total attempts", <<attempts>>), Say("Result: ENCRYPTION UNCRACKED")>>
    /\ pc' = "brute_menu"
    /\ UNCHANGED <<bruteRest, workers, wpc, localAttempts, attempts, mu, done, timer, cracks>>

\* main: the operator leaves the menu and the process ends
BruteQuit ==
    /\ pc = "brute_menu"
    /\ pc' = "exit0"
    /\ UNCHANGED <<bruteRest, out, workers, wpc, localAttempts, attempts, mu, done, timer, cracks>>

BruteNext ==
    \/ BruteStart
    \/ BruteArm
    \/ TimerFire
    \/ \E w \in Workers : WSelectDone(w)
    \/ \E w \in Workers : WSelectDefault(w)
    \/ \E w \in Workers : WAttempt(w)
    \/ \E w \in Workers : WClose(w)
    \/ \E w \in Workers : WLock(w)
    \/ \E w \in Workers : WAdd(w)
    \/ BruteWait
    \/ BruteQuit
    \/ ToolExit

InitBrute ==
    /\ env = NoEnv
    /\ keyFile = FileOf(HexEncode(EarlierKey))
    /\ keyInfo = [exists |-> TRUE, parses |-> TRUE, hex |-> HexEncode(EarlierKey),
                  total |-> defaultTotalShares, required |-> defaultThreshold]
    /\ testFile = TargetFile
    /\ held = EarlierShares
    /\ tool = "none"
    /\ pc = "idle"
    /\ out = <<>>
    /\ start = NoStart
    /\ totalShares = 0
    /\ threshold = 0
    /\ key = <<>>
    /\ shares = <<>>
    /\ response = <<>>
    /\ required = 0
    /\ filePath = ""
    /\ entered = <<>>
    /\ masterKey = <<>>
    /\ PipeIdle
    /\ BruteIdle
    /\ lab = NoLab
    /\ cracks = [s \in DOMAIN RandomShares |-> bruteDecryptFile(TargetFile, RandomShares[s])]

SpecBrute == InitBrute /\ [][BruteNext]_vars

\* the scheduler runs every goroutine that can take a step, the timer fires
\* when the duration is over, and wg.Wait returns once the workers are gone
FairBrute ==
    /\ SpecBrute
    /\ WF_vars(BruteArm)
    /\ WF_vars(TimerFire)
    /\ WF_vars(BruteWait)
    /\ \A w \in 1..MaxWorkers : WF_vars(w \in Workers /\ Worker(w))

(***************************************************************************)
(* The brute-force harness followed up to its progress reports: the failed *)
(* attempts of a worker between two reports are taken as one step          *)
(***************************************************************************)
\* progress reports a worker is followed over
MaxBatches == 1

\* lines 214-232, repeated while done stays open and every attempt fails,
\* until localAttempts reaches the next multiple of reportEvery
WBatch(w) ==
    /\ Alive
    /\ wpc[w] = "select"
    /\ done = "open"
    /\ localAttempts[w] < MaxBatches * reportEvery
    /\ \E s \in DOMAIN cracks : ~cracks[s]
    /\ localAttempts' = [localAttempts EXCEPT ![w] = ((@ \div reportEvery) + 1) * reportEvery]
    /\ wpc' = [wpc EXCEPT ![w] = "rlock"]
    /\ UNCHANGED <<bruteRest, pc, out, workers, attempts, mu, done, timer, cracks>>

ReportNext ==
    \/ BruteNext
    \/ \E w \in Workers : WBatch(w)
    \/ \E w \in Workers : WReportLock(w)
    \/ \E w \in Workers : WReport(w)

SpecReport == InitBrute /\ [][ReportNext]_vars

(***************************************************************************)
(* The encryption test suite, test_encryption/main.go: the menu, the file  *)
(* list and manualDecryption                                               *)
(***************************************************************************)
\* menu choices a run of the suite is followed over
MaxChoices == 1

\* the names the operator may type at "Enter encrypted filename": the test
\* archive, a name that is not there, and the current directory
SuitePaths == {"test_hello.encrypted", "missing.encrypted", "."}

\* os.Stat(filename) does not answer "not exist": the archive when it is
\* there, and the current directory always
SuiteStat(p) == p = "." \/ (p = "test_hello.encrypted" /\ testFile.exists)

\* what there is for os.ReadFile(filename) to read: a directory has no content
\* to read and the call fails on it
SuiteFile(p) == IF p = "test_hello.encrypted" THEN testFile ELSE NoTest

\* the (total, required) splits the shares the operator holds may come from
SuiteShapes == {<<3, 2>>, <<3, 3>>, <<5, 4>>}

\* the ways the operator may answer the share prompts of manualDecryption: what
\* runInteractiveTest may be given, or the second answer left empty
SuiteEntries == Entries(3) \cup {[e EXCEPT ![2] = <<>>] : e \in Entries(3)}

\* the menu loop of main has come round `n` times
MenuShown == Cardinality({i \in 1..Len(out) : out[i].msg = "Choose an option"})

\* showEncryptedFiles (lines 66-98)
showEncryptedFiles ==
    IF testFile.exists
    THEN <<Ev("Encrypted files in current directory", <<"test_hello.encrypted">>)>>
    ELSE <<Ev("Encrypted files in current directory", <<>>),
           Say("No .encrypted files found in current directory")>>

\* main, lines 31-46: the banner, the file list and the menu
SuiteStart ==
    /\ pc = "idle"
    /\ tool' = "suite"
    /\ start' = Snapshot
    /\ pc' = "suite_menu"
    /\ out' = <<Say("Encryption Test Suite")>> \o showEncryptedFiles
                  \o <<Say("Choose an option")>>
    /\ UNCHANGED <<fsVars, held, genVars, decVars, pipeVars, bruteVars, lab>>

\* the prompts of manualDecryption, lines 119-129: "Key share #i" until an
\* answer is empty
AskedShares(typed) ==
    IF \E i \in 1..Len(typed) : typed[i] = <<>>
    THEN CHOOSE i \in 1..Len(typed) : typed[i] = <<>> /\ \A j \in 1..(i - 1) : typed[j] # <<>>
    ELSE Len(typed)

\* choice "1": manualDecryption (lines 100-139), then the menu again
manualDecryption ==
    /\ pc = "suite_menu"
    /\ MenuShown <= MaxChoices
    /\ \E filename \in SuitePaths \cup {""} :
       \E lines \in SuiteEntries :
          LET typed == [i \in 1..3 |-> TrimSpace(lines[i])]
              asked == AskedShares(typed)
              prompts == <<Say("Enter your 3 key shares")>>
                            \o [i \in 1..asked |-> Ev("Key share #", <<i>>)]
              head == <<Say("Manual Decryption Mode")>>
          IN  IF filename = ""
              THEN /\ out' = out \o head \o <<Say("No filename provided"), Say("Choose an option")>>
                   /\ UNCHANGED <<filePath, entered>>
              ELSE IF ~SuiteStat(filename)
              THEN /\ out' = out \o head \o <<Ev("File not found", <<filename>>), Say("Choose an option")>>
                   /\ filePath' = filename
                   /\ UNCHANGED entered
              ELSE IF typed[asked] = <<>>
              THEN /\ out' = out \o head \o prompts
                                \o <<Say("Empty key share provided"), Say("Choose an option")>>
                   /\ filePath' = filename
                   /\ entered' = SubSeq(typed, 1, asked)
              ELSE /\ filePath' = filename
                   /\ entered' = typed
                   /\ out' = out \o head \o prompts \o <<Say("Attempting decryption")>>
                        \o (IF bruteDecryptFile(SuiteFile(filename), typed)
                            THEN <<Say("SUCCESS! File decrypted successfully")>>
                            ELSE <<Say("FAILED! Could not decrypt file")>>)
                        \o <<Say("Choose an option")>>
    /\ UNCHANGED <<fsVars, held, tool, pc, start, genVars, required, masterKey, pipeVars, bruteVars, lab>>

\* choice "3": showEncryptedFiles, then the menu again
SuiteRefresh ==
    /\ pc = "suite_menu"
    /\ MenuShown <= MaxChoices
    /\ out' = out \o showEncryptedFiles \o <<Say("Choose an option")>>
    /\ UNCHANGED <<fsVars, held, tool, pc, start, genVars, decVars, pipeVars, bruteVars, lab>>

\* choice "4": main returns
SuiteQuit ==
    /\ pc = "suite_menu"
    /\ pc' = "exit0"
    /\ out' = Append(out, Say("Goodbye!"))
    /\ UNCHANGED <<fsVars, held, tool, start, genVars, decVars, pipeVars, bruteVars, lab>>

SuiteNext ==
    \/ SuiteStart
    \/ manualDecryption
    \/ SuiteRefresh
    \/ SuiteQuit
    \/ ToolExit

\* the suite is started next to a key directory an earlier generation filled,
\* with the shares of that generation in the operator's hands, and with or
\* without the test archive in the current directory
InitSuite ==
    /\ env = NoEnv
    /\ keyFile = EarlierKeyFile
    /\ \E s \in SuiteShapes :
          /\ keyInfo = [exists |-> TRUE, parses |-> TRUE, hex |-> HexEncode(EarlierKey),
                        total |-> s[1], required |-> s[2]]
          /\ \E c \in 1..MaxCoef :
                held = createKeyShares(HexEncode(EarlierKey), s[1], s[2], c, 0)
    /\ testFile \in {NoTest} \cup
            {[exists |-> TRUE, blob |-> Seal(EarlierKey, n, HelloWorld)] : n \in 1..MaxNonce}
    /\ tool = "none"
    /\ pc = "idle"
    /\ out = <<>>
    /\ start = NoStart
    /\ totalShares = 0
    /\ threshold = 0
    /\ key = <<>>
    /\ shares = <<>>
    /\ response = <<>>
    /\ required = 0
    /\ filePath = ""
    /\ entered = <<>>
    /\ masterKey = <<>>
    /\ PipeIdle
    /\ BruteIdle
    /\ lab = NoLab
    /\ cracks = <<>>

SpecSuite == InitSuite /\ [][SuiteNext]_vars

(***************************************************************************)
(* Claims about the key generator and the decrypt tool, checked under Spec *)
(***************************************************************************)
PrintedBefore(msg, i) == \E j \in 1..(i - 1) : out[j].msg = msg

\* C1: the generator displays key shares only after both the master key file
\* and key_info.json have been written, and a run in which either write
\* failed has displayed no share.
C1_SharesOnlyAfterBothWrites ==
    tool = "keygen" =>
        /\ \A i \in 1..Len(out) :
                out[i].msg = "KEY SHARE" =>
                    /\ PrintedBefore("Generated new 256-bit master key", i)
                    /\ PrintedBefore("Key information saved", i)
        /\ Printed("Failed to generate master key") => ~Printed("KEY SHARE")
        /\ Printed("Failed to save key info") => ~Printed("KEY SHARE")

\* C2: with a master key file present and an answer other than y or Y at the
\* prompt, the generator ends without issuing shares and leaves the key file,
\* key_info.json and the test file as they were; a key is written only when
\* the key file was absent or the answer was y or Y.
C2_KeepsExistingKey ==
    tool = "keygen" =>
        /\ ( /\ Printed("Master key already exists")
             /\ pc # "gen_prompt"
             /\ response \notin {<<"y">>, <<"Y">>} )
            => /\ pc = "exit0"
               /\ ~Printed("KEY SHARE")
               /\ shares = <<>>
               /\ Snapshot = start
        /\ Printed("Generated new 256-bit master key")
            => \/ ~start.keyFile.exists
               \/ response \in {<<"y">>, <<"Y">>}

C2_Witness ==
    /\ tool = "keygen"
    /\ pc = "exit0"
    /\ Printed("Keeping existing key")
    /\ response = <<"n">>
    /\ keyFile.exists
    /\ keyInfo.exists
    /\ testFile.exists

\* the integer an entry of /app/.env states, when it states one
Stated(k) == EnvHas(env, k) /\ Atoi(EnvGet(env, k)).ok

StatedVal(k) == Atoi(EnvGet(env, k)).val

\* the value in force: the stated integer when positive, else the default 3
InForce(k) == IF Stated(k) /\ StatedVal(k) > 0 THEN StatedVal(k) ELSE 3

RejectedBeforeCrypto ==
    /\ pc = "exit1"
    /\ Printed("Failed to load configuration")
    /\ ~Printed("Generated new 256-bit master key")
    /\ key = <<>>
    /\ shares = <<>>
    /\ Snapshot = start

\* C3 as stated: every configured pair SHAMIR_TOTAL_SHARES = N,
\* SHAMIR_THRESHOLD = T with T > N or T < 2 makes the generator exit with a
\* configuration error before a key is generated or persisted or split.
C3_ConfiguredInvalidRejected ==
    ( /\ tool = "keygen"
      /\ Stated("SHAMIR_TOTAL_SHARES")
      /\ Stated("SHAMIR_THRESHOLD")
      /\ \/ StatedVal("SHAMIR_THRESHOLD") > StatedVal("SHAMIR_TOTAL_SHARES")
         \/ StatedVal("SHAMIR_THRESHOLD") < 2 )
    => RejectedBeforeCrypto

\* C3 amended: the pair in force (a missing, empty, unparsable or non-positive
\* value replaced by the default 3) with T > N or T < 2 makes the generator
\* exit with a configuration error before a key is generated, persisted or
\* split, the files unchanged.
C3_InForceInvalidRejected ==
    ( /\ tool = "keygen"
      /\ \/ InForce("SHAMIR_THRESHOLD") > InForce("SHAMIR_TOTAL_SHARES")
         \/ InForce("SHAMIR_THRESHOLD") < 2 )
    => RejectedBeforeCrypto

C3_Witness ==
    /\ tool = "keygen"
    /\ InForce("SHAMIR_THRESHOLD") > InForce("SHAMIR_TOTAL_SHARES")
    /\ RejectedBeforeCrypto
    /\ keyFile.exists

\* C5: in snapshot mode the decrypt tool never prints the reconstructed master
\* key in a run in which decryption of the chosen archive did not succeed.
C5_KeyRevealedOnlyAfterDecryption ==
    ( /\ tool = "decrypt"
      /\ pc = "exit0"
      /\ ~Printed("SUCCESS! Decrypted snapshot") )
    => \A i \in 1..Len(out) : masterKey = <<>> \/ out[i].data # HexEncode(masterKey)

\* C6: code that encrypts with the master key never prints it in full.
C6_EncryptingCodeNeverPrintsKey ==
    tool = "create-test" =>
        \A i \in 1..Len(out) : masterKey = <<>> \/ out[i].data # HexEncode(masterKey)

(***************************************************************************)
(* Claims about the snapshot pipeline, checked under SpecPipe              *)
(***************************************************************************)
\* the key file does not hold 64 hex digits, leading and trailing white space aside
KeyUnusable(f) ==
    \/ ~f.exists
    \/ LET t == TrimSpace(f.data)
       IN  \/ \E i \in 1..Len(t) : ~IsHexChar(t[i])
           \/ Len(t) # 2 * keyLengthBytes

\* C4: when the key file is absent, is not valid hex or decodes to other than
\* 32 bytes, the pipeline run ends at once with an error: it holds no key, the
\* store has the directories and files it had when the run began, and neither
\* the path creation, the encryption, the retention sweep nor the upload is called.
C4_UnusableKeyAbortsRun ==
    (tool = "pipeline" /\ KeyUnusable(start.keyFile)) =>
        /\ pc = "exit0"
        /\ masterKey = <<>>
        /\ files = start.files
        /\ dirs = start.dirs
        /\ \A i \in 1..Len(calls) : calls[i] = "loadMasterKey"
        /\ Printed("No encryption key found") \/ Printed("Failed to load master key")

C4_Witness ==
    /\ tool = "pipeline"
    /\ keyFile = FileOf(Rep("a", 2 * keyLengthBytes - 2))
    /\ out = <<Ev("Failed to load master key", <<"invalid key length">>)>>
    /\ now > 0

\* no DAY_RETENTION line of /app/.env states a number above 0: the threshold
\* is 0, negative, missing or unparsable
RetentionOff(e) ==
    \A i \in 1..Len(e.entries) :
        (e.exists /\ e.entries[i][1] = "DAY_RETENTION") =>
            LET v == TrimSpace(e.entries[i][2])
            IN  \/ v = <<>>
                \/ \E j \in 1..Len(v) : ~IsDigit(v[j]) /\ ~(j = 1 /\ v[j] \in {"+", "-"})
                \/ v \in {<<"+">>, <<"-">>}
                \/ Head(v) = "-"
                \/ \A j \in 1..Len(v) : v[j] \in {"0", "+"}

\* the archives and directories the run began with are still there
NothingSwept ==
    /\ \A f \in start.files : f.ext = ".encrypted" => \E g \in files : SamePath(f, g)
    /\ start.dirs \subseteq dirs
    /\ ~Printed("Checking retention policy")

\* C10: when the retention threshold is 0, negative, missing or unparsable,
\* checkRetentionPolicy changes neither the files nor the directories of the
\* store, and a pipeline run leaves every archive and every directory it
\* found in place.
C10_RetentionOffIsNoOp ==
    /\ []((tool = "pipeline" /\ RetentionOff(env)) => NothingSwept)
    /\ [][(pc = "pipe_retention" /\ RetentionOff(env)) => (files' = files /\ dirs' = dirs)]_vars

C10_Witness ==
    /\ tool = "pipeline"
    /\ RetentionOff(env)
    /\ env.exists /\ env.entries # <<>>
    /\ Called("checkRetentionPolicy")
    /\ \E f \in files : f.ext = ".encrypted" /\ f.mtime < now - MinutesPerDay

(***************************************************************************)
(* Claims about the brute-force harness, checked under SpecBrute and, for  *)
(* termination, under FairBrute                                            *)
(***************************************************************************)
\* the run has printed its results
Reported == tool = "brute" /\ Printed("Result: ENCRYPTION UNCRACKED")

\* C7: in no run in which a worker's attempt succeeded does the final result
\* report the encryption as uncracked.
C7_SuccessNeverReportedUncracked ==
    Reported => ~Printed("CRITICAL: ENCRYPTION CRACKED")

\* C8: a started brute-force run completes: the workers exit and
\* runBruteForceTest returns to the menu.
C8_RunReturns == (pc = "brute_arm") ~> (pc = "brute_menu")

\* a started run returns or the process panics
C8_ReturnsOrPanics == (pc = "brute_arm") ~> (pc \in {"brute_menu", "exit2"})

RECURSIVE SumLocal(_)
SumLocal(n) == IF n = 0 THEN 0 ELSE localAttempts[n] + SumLocal(n - 1)

\* the number on the "Total attempts" line
ReportedAttempts ==
    LET i == CHOOSE j \in 1..Len(out) : out[j].msg = "Total attempts" IN out[i].data[1]

\* C9: the total a run reports is the sum of the failed attempts of all its
\* workers, and is above 0 whenever a worker completed an attempt.
C9_TotalIsSumOfFailedAttempts ==
    Reported =>
        /\ ReportedAttempts = SumLocal(workers)
        /\ (SumLocal(workers) > 0 => ReportedAttempts > 0)

(***************************************************************************)
(* Claims about the retention sweep                                        *)
(***************************************************************************)
\* the archive the running pipeline wrote is in the store
OwnArchiveKept ==
    \E f \in files : f.dir = diskImagePath.dir /\ f.stamp = diskImagePath.stamp
                     /\ f.ext = ".encrypted"

\* the step of main that is the retention sweep
SweepStep == pc = "pipe_retention" /\ pc' = "pipe_upload"

\* C11: the sweep deletes only files that end in .encrypted and were last
\* modified before now minus the retention days, and once the sweep of a run
\* has been called the archive that run wrote is still in the store
C11_SweepDeletesOnlyExpiredArchives ==
    /\ [](Called("checkRetentionPolicy") => OwnArchiveKept)
    /\ [][SweepStep =>
            \A f \in files \ files' :
                /\ f.ext = ".encrypted"
                /\ f.mtime < now - getRetentionDays(env) * MinutesPerDay]_vars

\* a sweep deleted an archive and left an older leftover that is no archive,
\* an archive modified exactly at the cutoff, and the archive of its own run
C11_Witness ==
    /\ Called("checkRetentionPolicy")
    /\ Len(swept) = 1
    /\ swept[1].files \ files # {}
    /\ \E f \in files : f.ext # ".encrypted" /\ f.mtime < swept[1].cutoffTime
    /\ \E f \in files : f.ext = ".encrypted" /\ f.mtime = swept[1].cutoffTime
    /\ OwnArchiveKept

\* the walks of checkRetentionPolicy this run has finished
Sweeps == 1..Len(swept)

\* the store as the i-th walk of this run left it
FilesAfter(i) == IF i < Len(swept) THEN swept[i + 1].files ELSE files

DirsAfter(i) == IF i < Len(swept) THEN swept[i + 1].dirs ELSE dirs

\* the archives older than the cutoff that the i-th walk met no error on
Reachable(i) ==
    {f \in Expired(swept[i].files, swept[i].cutoffTime) :
        ~Under(swept[i].unreadable, f.dir) /\ f \notin swept[i].failed}

\* C12: a directory that cannot be read and removals that fail do not end the
\* sweep: every archive older than the cutoff that lies outside the unreadable
\* directory and whose removal did not fail is gone when the sweep returns
C12_ErrorsDoNotStopTheSweep ==
    \A i \in Sweeps : Reachable(i) \cap FilesAfter(i) = {}

\* one sweep met an unreadable directory and a failed removal, and deleted an
\* expired archive that the walk reaches after both
C12_Witness ==
    /\ Len(swept) = 1
    /\ swept[1].unreadable # NoDir
    /\ \E g \in swept[1].failed, f \in Reachable(1) :
            /\ WalksBefore(swept[1].unreadable, f.dir)
            /\ WalksBefore(g.dir, f.dir)
            /\ f \notin files

\* the i-th walk of this run deleted an archive and met no error
CleanSweep(i) ==
    /\ swept[i].files # FilesAfter(i)
    /\ swept[i].unreadable = NoDir
    /\ swept[i].failed = {}

\* C13: when a sweep that deleted archives has finished, no directory below
\* the root of the store is empty, the month, day and year directories that
\* lost their last child directory included
C13_NoEmptyDirectoryAfterSweep ==
    \A i \in Sweeps :
        CleanSweep(i) =>
            \A d \in DirsAfter(i) : d = <<>> \/ ~EmptyDir(d, FilesAfter(i), DirsAfter(i))

\* what removeEmptyDirs does reach: the directories that were empty when its
\* walk began, the hour directories the deleted archives lay in
C13_EmptiedLeavesRemoved ==
    \A i \in Sweeps :
        CleanSweep(i) =>
            \A d \in DirsAfter(i) : d = <<>> \/ ~EmptyDir(d, FilesAfter(i), swept[i].dirs)

\* the i-th walk of this run met no unreadable directory and no failed removal
NoError(i) == swept[i].unreadable = NoDir /\ swept[i].failed = {}

\* the i-th walk of this run left the store as it found it
NoOp(i) == FilesAfter(i) = swept[i].files /\ DirsAfter(i) = swept[i].dirs

C15_ArchiveWrittenOnce ==
    (tool = "pipeline" /\ pc = "pipe_rmiso") =>
        ~\E f \in start.files : /\ f.dir = diskImagePath.dir
                                /\ f.stamp = diskImagePath.stamp
                                /\ f.ext = ".encrypted"

(***************************************************************************)
(* Claims about encryption and secret sharing                              *)
(***************************************************************************)
\* C16: the blob encryptFile or encryptData makes of a plaintext under a
\* 32-byte key, the nonce first, then ciphertext and tag, is decrypted by
\* decryptFile under the same key to exactly that plaintext
C16_DecryptOfEncryptIsPlaintext ==
    (lab.stage = "opened" /\ lab.tamper = "" /\ lab.used.key = lab.key) =>
        /\ lab.res.ok
        /\ lab.res.pt = lab.pt

\* an archive of the pipeline's encryptFile has been opened with its key
C16_Witness ==
    /\ lab.stage = "opened"
    /\ lab.via = "encryptFile"
    /\ lab.tamper = ""
    /\ lab.used.key = lab.key
    /\ lab.pt = HelloWorld
    /\ lab.res.pt = HelloWorld

\* C17: decryptFile returns the whole plaintext that was sealed, or an error
\* and no plaintext byte. A blob shorter than the nonce is rejected as too
\* short; a blob with one bit changed or with bytes missing, and a blob opened
\* with another 32-byte key, fail authentication
C17_PlaintextOrErrorNothingBetween ==
    lab.stage = "opened" =>
        /\ lab.res.ok => (lab.res.pt = lab.pt /\ lab.tamper = "" /\ lab.used.key = lab.key)
        /\ ~lab.res.ok => lab.res.pt = <<>>
        /\ Len(lab.blob) < NonceSize =>
              (~lab.res.ok /\ (AesKeyOk(lab.used.key) => lab.res.err = "ciphertext too short"))
        /\ (AesKeyOk(lab.used.key) /\ (lab.tamper \in {"bit", "cut"} \/ lab.used.key # lab.key)
              /\ Len(lab.blob) >= NonceSize) =>
              (~lab.res.ok /\ lab.res.err = "cipher: message authentication failed")

\* a blob of "hello world!" with one bit changed has been handed to
\* decryptFile with the sealing key, and was refused
C17_Witness ==
    /\ lab.stage = "opened"
    /\ lab.tamper = "bit"
    /\ lab.pt = HelloWorld
    /\ lab.used.key = lab.key
    /\ ~lab.res.ok
    /\ lab.res.pt = <<>>

\* the shares handed to Combine are exactly t of the n that were issued
ThresholdPick == lab.shares # <<>> /\ lab.picked # <<>> /\ Len(lab.picked) = lab.t

\* C18: for a valid (n, t), any t different shares of the n that
\* createKeyShares issued for a master key, written in hex and decoded again,
\* are combined to exactly that master key
C18_CombineOfSplitIsSecret ==
    (lab.stage \in {"combined", "opened"} /\ ThresholdPick) =>
        /\ lab.used.ok
        /\ lab.used.key = lab.key

\* 2 of 3 shares of a 2-of-3 split, the last and the first in that order,
\* have been combined to the master key
C18_Witness ==
    /\ lab.stage = "combined"
    /\ lab.n = 3
    /\ lab.t = 2
    /\ lab.c > 0
    /\ lab.picked = <<3, 1>>
    /\ lab.used.key = lab.key
    /\ Len(lab.key) = keyLengthBytes

\* "hello world!" has been sealed under a master key that was split 3-of-3
\* with a polynomial of full degree, and some of the shares were combined
ThreeOfThree ==
    /\ lab.stage \in {"combined", "opened"}
    /\ lab.n = 3
    /\ lab.t = 3
    /\ lab.c # 0
    /\ lab.via # ""
    /\ lab.pt = HelloWorld

\* C19: with a master key split 3-of-3 and "hello world!" sealed under it, the
\* three shares combined decrypt the blob to "hello world!"; any two of the
\* three are refused by Combine or combine to another key, under which
\* decryptFile fails authentication and yields nothing
C19_BelowThresholdNeverDecrypts ==
    ThreeOfThree =>
        /\ Len(lab.picked) = 3 =>
              /\ lab.used.ok
              /\ lab.stage = "opened" => (lab.res.ok /\ lab.res.pt = HelloWorld)
        /\ Len(lab.picked) = 2 =>
              \/ ~lab.used.ok
              \/ /\ lab.used.key # lab.key
                 /\ lab.stage = "opened" =>
                       /\ ~lab.res.ok
                       /\ lab.res.pt = <<>>
                       /\ lab.res.err = "cipher: message authentication failed"

\* two of the three shares were combined and decryptFile refused the blob
C19_Witness ==
    /\ ThreeOfThree
    /\ lab.stage = "opened"
    /\ Len(lab.picked) = 2
    /\ lab.res.err = "cipher: message authentication failed"

(***************************************************************************)
(* Claims about key regeneration                                           *)
(***************************************************************************)
\* the key the shares of the earlier generation combine to
OldKey == reconstruct(EarlierShares)

\* the shares of the earlier generation decrypt the blob
OldSharesOpen(blob) == OldKey.ok /\ AesKeyOk(OldKey.key) /\ OpenOk(OldKey.key, blob)

\* the key file holds a key other than that of the earlier generation
Regenerated == keyFile.exists /\ keyFile # EarlierKeyFile

TargetReadable == SuiteFile(filePath).exists

\* C21: a failure to read the target archive is never reported as a failed
\* decryption: whenever manualDecryption has printed "FAILED! Could not
\* decrypt file", the archive it was pointed at could be read
C21_UnreadableNotReportedAsFailedDecryption ==
    (tool = "suite" /\ Printed("FAILED! Could not decrypt file")) => TargetReadable

\* the share prompts of the manualDecryption that ran last
SharePrompts ==
    LET from == CHOOSE i \in 1..Len(out) :
                    /\ out[i].msg = "Manual Decryption Mode"
                    /\ \A j \in (i + 1)..Len(out) : out[j].msg # "Manual Decryption Mode"
    IN  Cardinality({i \in from..Len(out) : out[i].msg = "Key share #"})

\* the manualDecryption that ran last went as far as the decryption
Attempted ==
    /\ tool = "suite"
    /\ Len(out) >= 3
    /\ out[Len(out) - 2].msg = "Attempting decryption"

\* C22: manual reconstruction prompts for exactly T shares, T being the
\* required shares recorded in key_info.json: when manualDecryption attempts
\* the decryption it has asked for T shares
C22_PromptsForExactlyT ==
    Attempted => SharePrompts = keyInfo.required

\* the decrypt tool's part of C22: runInteractiveTest reads as many shares as
\* key_info.json requires, whenever that file can be loaded
C22_DecryptToolPromptsForT ==
    (tool = "decrypt" /\ pc = "dec_combine") =>
        /\ Len(entered) = required
        /\ (start.keyInfo.exists /\ start.keyInfo.parses) => required = start.keyInfo.required

(***************************************************************************)
(* Claims about the key directory after generator runs, checked under Spec *)
(***************************************************************************)
\* the generator run that ends here has written a new master key
WroteNewKey ==
    /\ tool = "keygen"
    /\ pc \in {"exit0", "exit1"}
    /\ keyFile # start.keyFile

\* C23: the test file is cleaned whenever new keys are generated: when a
\* generator run that wrote a new master key ends, no test file encrypted
\* under another key than the new one exists
C23_TestFileCleanedOnNewKey ==
    WroteNewKey => (testFile.exists => OpenOk(key, testFile.blob))

\* C24: the key metadata is rewritten every time a master key is generated:
\* when a generator run that wrote a new master key ends, also with an error,
\* key_info.json holds the hex of that key and the share counts of the run
C24_KeyInfoRewrittenWithKey ==
    WroteNewKey =>
        /\ keyInfo.exists
        /\ keyInfo.hex = TrimSpace(keyFile.data)
        /\ keyInfo.total = totalShares
        /\ keyInfo.required = threshold

(***************************************************************************)
(* Claims about the order of a pipeline run, checked under SpecPipe        *)
(***************************************************************************)
\* C25: within one pipeline run the retention sweep comes before the write of
\* the run's archive: checkRetentionPolicy is never called after
\* encryptDiskImage in the same run
C25_SweepBeforeArchiveWrite ==
    tool = "pipeline" =>
        \A i, j \in 1..Len(calls) :
            (calls[i] = "encryptDiskImage" /\ calls[j] = "checkRetentionPolicy") => j < i

(***************************************************************************)
(* Claims about the shared counter of the brute-force harness, checked     *)
(* under SpecReport                                                        *)
(***************************************************************************)
\* the attempts worker `w` has completed in whole batches of reportEvery
Batches(w) == (localAttempts[w] \div reportEvery) * reportEvery

RECURSIVE SumBatches(_)
SumBatches(n) ==
    IF n = 0 THEN 0
    ELSE (IF wpc[n] \in {"select", "attempt"} THEN Batches(n) ELSE 0) + SumBatches(n - 1)

\* C26: every completed batch of 1000 attempts is added to the shared counter:
\* while a run is on, attempts is at least the sum of the batches completed and
\* reported by the workers that are still in their loop
C26_CounterHoldsCompletedBatches ==
    (tool = "brute" /\ Alive) => attempts >= SumBatches(workers)

\* the workers inside a read or an update of attempts
InCounter == {w \in Workers : wpc[w] \in {"add", "report"}}

\* the workers whose position or own count a step changes
Moved == {w \in Workers : w \in DOMAIN wpc' /\ (wpc'[w] # wpc[w] \/ localAttempts'[w] # localAttempts[w])}

\* C27: the shared counter is read and written under mutual exclusion while
\* workers run: at most one worker is inside a read or update of attempts and
\* it holds mu; attempts changes only in a step of the holder of mu; the
\* results are printed only when every worker has exited; and a step of a
\* running harness changes the position and count of at most one worker
C27_CounterUnderMutualExclusion ==
    /\ [](tool = "brute" =>
            /\ Cardinality(InCounter) <= 1
            /\ \A w \in Workers : (w \in InCounter) <=> (mu = w)
            /\ (pc = "brute_menu" => \A w \in Workers : wpc[w] = "exited"))
    /\ [][(tool = "brute" /\ tool' = "brute") =>
            /\ (attempts' # attempts => (mu # 0 /\ wpc[mu] = "add" /\ wpc'[mu] = "exited"))
            /\ Cardinality(Moved) <= 1]_vars

\* a worker holds mu for its final addition while another, with a batch to
\* report, waits for mu
C27_Witness ==
    /\ tool = "brute"
    /\ workers = 2
    /\ \E w, v \in Workers :
          /\ wpc[w] = "add"
          /\ mu = w
          /\ wpc[v] = "rlock"

(***************************************************************************)
(* Claims about the totals of a retention sweep, checked under SpecSweep   *)
(***************************************************************************)
\* the "Retention cleanup complete" line of the first sweep of the run
CleanupLine ==
    out[CHOOSE i \in 1..Len(out) : out[i].msg = "Retention cleanup complete"]

\* the files the first sweep of the run has deleted
Deleted == swept[1].files \ files

\* the count the sweep reports is the number of archives it deleted
C28_CountMatchesDeleted ==
    (Len(swept) = 1 /\ Printed("Retention cleanup complete")) =>
        CleanupLine.data[1] = Cardinality(Deleted)

\* C28: the count and the bytes freed a sweep reports are the number and the
\* summed size of the archives it deleted, also when a removal failed
C28_TotalsMatchDeleted ==
    (Len(swept) = 1 /\ Printed("Retention cleanup complete")) =>
        /\ CleanupLine.data[1] = Cardinality(Deleted)
        /\ CleanupLine.data[2] = SumSize(Deleted)

(***************************************************************************)
(* Claims about the stop channel of the brute-force harness, checked under *)
(* SpecBrute                                                               *)
(***************************************************************************)
\* C29: the stop channel is closed at most once in every interleaving: the
\* process never panics with "close of closed channel"
C29_DoneClosedAtMostOnce ==
    tool = "brute" => (pc # "exit2" /\ ~Printed("panic: close of closed channel"))

(***************************************************************************)
(* Claims about what a pipeline run leaves in the store, checked under     *)
(* SpecPipe                                                                *)
(***************************************************************************)
\* the unencrypted image of the running pipeline is in the store
OwnImageLeft ==
    \E f \in files : /\ f.dir = diskImagePath.dir
                     /\ f.stamp = diskImagePath.stamp
                     /\ f.ext = ".iso.gz"

\* C30: when a pipeline run ends, with or without an error, the unencrypted
\* image it created is no longer in the archive store
C30_NoPlaintextLeftBehind ==
    (tool = "pipeline" /\ pc \in {"exit0", "exit1", "exit2"} /\ diskImagePath # NoPath)
        => ~OwnImageLeft
====
